---- MODULE Spec2Model ----
(***************************************************************************)
(* A state-machine model of the spec-agents RAG service: the multi-        *)
(* provider LLM fallback client, the re-ranker, the document Upload and    *)
(* Process APIs, the query response cache, the query embedding cache, the  *)
(* embedding rate limiter, the Chat API, the answer guardrails and claim   *)
(* verification, the structured chunker, query preprocessing and the safe  *)
(* React hooks.                                                            *)
(***************************************************************************)
EXTENDS Integers, Sequences, FiniteSets, TLC

VARIABLES
  env,      \* process.env: the set of environment variable names that are set
  now,      \* Date.now(), in milliseconds
  client,   \* the ModelFallbackClient instance (under test, or the singleton)
  gen,      \* the generateContent call in progress on client
  rr,       \* the rerankChunks call in progress
  documents,  \* the documents table: id -> row, status "none" when no row
  storage,    \* the paths of the blobs in the "documents" bucket
  chunkRows,  \* the chunks table: document id -> number of rows
  upload,     \* the response of the last Upload API request
  proc,       \* the Process API requests: request -> handler state
  started,    \* how many Process API requests have been received
  qcache,     \* query-cache.ts cache: the Map's entries, in insertion order
  qlast,      \* the last query cache operation and what it did
  ecache,     \* embedding-cache.ts cache: the Map's entries, in insertion order
  ecalls,     \* the getCachedQueryEmbedding calls: call -> state
  ticks,      \* how many times the clock has advanced
  limiter,    \* the EmbeddingRateLimiter instance and its throttle() calls
  chat,       \* the Chat API request in flight
  guard,    \* the applyGuardrails call: its arguments and its result
  verif,    \* the verifyClaimAgainstSource call: its arguments and its result
  chunker,  \* createStructuredChunks on one page, and TABLE_PATTERNS.tableStart.lastIndex
  prep,     \* the query being preprocessed: preprocessQuery and getSearchWeights
  hooks,     \* a component using the safe hooks: refs, timers and the component's state
  ui,        \* an upload component: the files it shows and its upload/process requests
  dedup,     \* a run of the deduplication script
  chunking,  \* the chunkText call of the Process API
  narrative  \* chunkNarrativeText with the caller's chunkSize and overlap

llmVars == <<client, gen, rr>>
dbVars == <<documents, storage, chunkRows, upload, proc, started>>
cacheVars == <<qcache, qlast, ecache, ecalls, ticks>>
appVars == <<limiter, chat, guard, verif, chunker, prep, hooks, ui, dedup, chunking, narrative>>
notLimiter == <<chat, guard, verif, chunker, prep, hooks, ui, dedup, chunking, narrative>>
notChat == <<limiter, guard, verif, chunker, prep, hooks, ui, dedup, chunking, narrative>>
notGuard == <<limiter, chat, verif, chunker, prep, hooks, ui, dedup, chunking, narrative>>
notVerif == <<limiter, chat, guard, chunker, prep, hooks, ui, dedup, chunking, narrative>>
notChunker == <<limiter, chat, guard, verif, prep, hooks, ui, dedup, chunking, narrative>>
notPrep == <<limiter, chat, guard, verif, chunker, hooks, ui, dedup, chunking, narrative>>
notHooks == <<limiter, chat, guard, verif, chunker, prep, ui, dedup, chunking, narrative>>
notUi == <<limiter, chat, guard, verif, chunker, prep, hooks, dedup, chunking, narrative>>
notDedup == <<limiter, chat, guard, verif, chunker, prep, hooks, ui, chunking, narrative>>
notChunking == <<limiter, chat, guard, verif, chunker, prep, hooks, ui, dedup, narrative>>
notNarrative == <<limiter, chat, guard, verif, chunker, prep, hooks, ui, dedup, chunking>>
vars == <<env, now, client, gen, rr, documents, storage, chunkRows, upload,
          proc, started, qcache, qlast, ecache, ecalls, ticks, limiter,
          chat, guard, verif, chunker, prep, hooks, ui, dedup,
          chunking, narrative>>

\* Timers may fire late by up to this many milliseconds.
MaxJitter == 1

\* Environment variables changed after the client was constructed.
MaxEnvChanges == 1

Null == "null"

\* No instance / no result yet.
NoClient == [kind |-> "none"]

NoResult == [kind |-> "none"]

\* ---------------------------------------------------------------------------
\* Sequence helpers
\* ---------------------------------------------------------------------------
Range(s) == {s[i] : i \in 1..Len(s)}

Last(s) == s[Len(s)]

Min(a, b) == IF a <= b THEN a ELSE b

Max(a, b) == IF a >= b THEN a ELSE b

\* ---------------------------------------------------------------------------
\* lib/model-fallback.ts : provider table
\* ---------------------------------------------------------------------------
PROVIDERS ==
  << [name |-> "Anthropic", envKey |-> "ANTHROPIC_API_KEY",
      models |-> <<"claude-sonnet-4-5-20250929", "claude-haiku-4-5-20251001">>],
     [name |-> "Groq", envKey |-> "GROQ_API_KEY",
      models |-> <<"llama-3.3-70b-versatile", "llama-3.1-8b-instant">>],
     [name |-> "Cerebras", envKey |-> "CEREBRAS_API_KEY",
      models |-> <<"llama-3.3-70b", "llama-3.1-8b">>],
     [name |-> "OpenRouter", envKey |-> "OPENROUTER_API_KEY",
      models |-> <<"meta-llama/llama-3.3-70b-instruct:free">>] >>

LLMEnvKeys == {PROVIDERS[i].envKey : i \in 1..Len(PROVIDERS)}

\* Error messages a provider call can fail with (the text of the thrown Error).
RateLimitMsg == "429: rate limit exceeded"
NotFoundMsg == "404: model not found"
InvalidModelMsg == "400: invalid model"
ServerErrorMsg == "500: internal error"

ErrorMessages == {RateLimitMsg, NotFoundMsg, ServerErrorMsg}

\* lib/utils/error-detection.ts is not part of the sources: a rate-limit error
\* is one whose message reports the provider's rate limit.
isRateLimitError(msg) == msg = RateLimitMsg

\* Mutant: model-not-found errors go undetected.
isModelNotFoundError_Never(msg) == FALSE

\* msg.includes("not found") || msg.includes("invalid model")
isModelNotFoundError(msg) == msg \in {NotFoundMsg, InvalidModelMsg}

\* Pause requested after a rate-limit / model-not-found failure.
RetryPauseMs == 300

\* lib/utils/sleep.ts is not part of the sources: sleep(ms) resumes the caller
\* once at least ms milliseconds have passed (a timer may fire late).
SleepDurations(ms) == ms..(ms + MaxJitter)

\* A completion is a sequence of tokens: words, or one JSON document.
NoJson == [isNull |-> FALSE, hasScores |-> FALSE, scores |-> <<>>]

W(word) == [w |-> word, j |-> NoJson]

Json(value) == [w |-> "json", j |-> value]

\* Raw completions a provider can return.
Texts ==
  { <<W("answer")>>,
    <<W("<think>"), W("plan"), W("</think>"), W(" "), W("answer"), W(" ")>> }

\* Index of the first "</think>" at or after position i, or 0.
RECURSIVE FirstClose(_, _)
FirstClose(s, i) ==
  IF i > Len(s) THEN 0
  ELSE IF s[i].w = "</think>" THEN i
  ELSE FirstClose(s, i + 1)

\* text.replace(/<think>[\s\S]*?<\/think>/gi, "")
RECURSIVE StripThink(_)
StripThink(s) ==
  IF s = <<>> THEN <<>>
  ELSE IF Head(s).w = "<think>" /\ FirstClose(s, 2) # 0
       THEN StripThink(SubSeq(s, FirstClose(s, 2) + 1, Len(s)))
       ELSE <<Head(s)>> \o StripThink(Tail(s))

\* String.prototype.trim on a token sequence.
RECURSIVE TrimLeft(_)
TrimLeft(s) ==
  IF s # <<>> /\ Head(s).w = " " THEN TrimLeft(Tail(s)) ELSE s

RECURSIVE TrimRight(_)
TrimRight(s) ==
  IF s # <<>> /\ Last(s).w = " " THEN TrimRight(SubSeq(s, 1, Len(s) - 1)) ELSE s

Trim(s) == TrimRight(TrimLeft(s))

CleanText(text) == Trim(StripThink(text))

\* the template string provider.name + "/" + model
ModelUsed(provider, model) == <<provider.name, "/", model>>

\* Mutant: the constructor keeps every provider, key or no key.
AvailableProviders_NoKeyCheck(e) == PROVIDERS

\* constructor: the providers whose key is set, in table order
AvailableProviders(e) == SelectSeq(PROVIDERS, LAMBDA p : p.envKey \in e)

\* Documents, concurrent Process API requests and Process API requests in all.
MaxDocs == 2

MaxRequests == 2

MaxStarted == 2

DocIds == 1..MaxDocs

Requests == 1..MaxRequests

\* created_at is set by the database when the row is inserted.
NoRow ==
  [status |-> "none", filename |-> <<>>, storage_path |-> <<>>, created_at |-> 0]

NoResponse == [status |-> 0, body |-> "none", documentId |-> 0]

IdleProcess ==
  [pc |-> "idle", documentId |-> 0, storage_path |-> <<>>, chunks |-> 0,
   marked |-> FALSE, next |-> NoResponse, response |-> NoResponse]

\* An empty database and bucket, no request in flight.
DbInit ==
  /\ documents = [d \in DocIds |-> NoRow]
  /\ storage = {}
  /\ chunkRows = [d \in DocIds |-> 0]
  /\ upload = NoResponse
  /\ proc = [r \in Requests |-> IdleProcess]
  /\ started = 0

\* Concurrent getCachedQueryEmbedding calls; clock advances.
MaxCalls == 2

MaxTicks == 2

Calls == 1..MaxCalls

NoQueryOp ==
  [op |-> "none", key |-> <<>>, at |-> 0, found |-> FALSE, cachedAtBefore |-> 0,
   returned |-> FALSE, evicted |-> {}]

IdleCall ==
  [pc |-> "idle", query |-> <<>>, key |-> [md5 |-> <<>>],
   calledClient |-> FALSE, result |-> "none"]

\* Both caches as the modules create them: new Map().
CachesEmpty ==
  /\ qcache = <<>>
  /\ qlast = NoQueryOp
  /\ ecache = <<>>
  /\ ecalls = [c \in Calls |-> IdleCall]
  /\ ticks = 0

\* No EmbeddingRateLimiter has been constructed.
NoLimiter ==
  [kind |-> "none", lastRequestTime |-> 0, minDelayMs |-> 0,
   calls |-> [c \in Calls |-> [pc |-> "idle", wakeAt |-> 0]], returns |-> <<>>]

\* The parts of the application that a specification leaves alone.
\* The Chat API request before it arrives: no search, no generation, no
\* response.  body is "answer" ({response, sources}), "verified", "error"
\* ({error}) or "none".
NoChatResponse ==
  [status |-> 0, body |-> "none", response |-> <<>>, sources |-> <<>>, error |-> ""]

IdleChat ==
  [pc |-> "idle", search |-> "none", chunks |-> <<>>, docMap |-> {},
   generation |-> "none", response |-> NoChatResponse]

\* No applyGuardrails call yet.
IdleGuard ==
  [pc |-> "idle", claims |-> <<>>, source_type |-> "documents",
   confidence |-> 0, passed |-> FALSE, runs |-> 0,
   action |-> "none"]

\* No verifyClaimAgainstSource call yet.
IdleVerif ==
  [pc |-> "idle", claim |-> <<>>, exact_quote |-> <<>>, found |-> FALSE,
   content |-> <<>>, verified |-> FALSE, quote_match_score |-> 0,
   claim_numbers |-> <<>>, numbers_verified |-> FALSE]

\* createStructuredChunks before any call: the tableStart pattern (flags
\* gim) is a module-level object, its lastIndex starts at 0.
IdleChunker ==
  [pc |-> "idle", lastIndex |-> 0, blocks |-> <<>>, i |-> 0,
   currentNarrative |-> <<>>, currentTable |-> <<>>, sections |-> <<>>,
   chunks |-> <<>>]

\* No preprocessQuery call yet.
NoCodes == [uns |-> FALSE, astm |-> FALSE, api |-> FALSE, grade |-> FALSE, nace |-> FALSE]

IdlePrep ==
  [pc |-> "idle", query |-> <<>>, extractedCodes |-> NoCodes,
   boostExactMatch |-> FALSE, bm25Weight |-> 0, vectorWeight |-> 0]

\* A component using useSafeState, useSafeTimeout and useSafeInterval,
\* before it is rendered.  timers maps a timer id to "timeout", "interval"
\* or "none"; ran and applied tell what the last step did.
IdleHooks ==
  [mounted |-> FALSE, rendered |-> FALSE, state |-> 0,
   stateMounted |-> TRUE, timeoutMounted |-> TRUE, intervalMounted |-> TRUE,
   timeoutRef |-> 0, intervalRef |-> 0, timers |-> <<>>,
   lateUpdates |-> 0, lateCallbacks |-> 0, suppressed |-> 0]

\* An upload component before any file is chosen.  files is the list the
\* component shows (the single-file component shows at most one); requests
\* holds the handleFile / handleFiles calls so far.  owner is the call that
\* added the shown entry: it is not program state, it only tells which
\* file an entry stands for.
IdleUi == [kind |-> "single", files |-> <<>>, requests |-> <<>>]

\* A run of scripts/dedup-documents.ts that has not started.  docs is the
\* fetched list with the chunk counts read so far, next the position in the
\* loop the run is in.  before, readFailures and deleteFailures are not
\* program state: the tables when the run started, and how many reads and
\* deletion steps returned an error.
IdleDedup ==
  [pc |-> "idle", dryRun |-> TRUE, docs |-> <<>>, toKeep |-> <<>>,
   toDelete |-> <<>>, next |-> 1,
   before |-> [documents |-> <<>>, chunkRows |-> <<>>, storage |-> {}],
   readFailures |-> 0, deleteFailures |-> 0]

\* A chunkText call of the Process API that has not been made.  text is a
\* sequence of runs <<kind, n>>: n characters that are all whitespace
\* ("space") or all not ("char"); windows and chunks hold <<start, end>> of
\* text.slice(start, end).
IdleChunking ==
  [pc |-> "idle", text |-> <<>>, start |-> 0, windows |-> <<>>, chunks |-> <<>>]

\* A chunkNarrativeText call that has not been made.  text is the section's
\* content, one character per element; chunks holds <<from, to>> of each
\* pushed text.slice(from, to).trim(), iterations the number of loop
\* iterations modulo 2.
IdleNarrative ==
  [pc |-> "idle", text |-> <<>>, chunkSize |-> 1, overlap |-> 0, start |-> 0,
   chunks |-> <<>>, iterations |-> 0]

AppIdle ==
  /\ limiter = NoLimiter
  /\ chat = IdleChat
  /\ guard = IdleGuard
  /\ verif = IdleVerif
  /\ chunker = IdleChunker
  /\ prep = IdlePrep
  /\ hooks = IdleHooks
  /\ ui = IdleUi
  /\ dedup = IdleDedup
  /\ chunking = IdleChunking
  /\ narrative = IdleNarrative

\* No rerankChunks call in progress.
IdleRerank ==
  [pc |-> "idle", chunks |-> <<>>, topK |-> 0, result |-> <<>>, path |-> "none"]

IdleGen ==
  [pc |-> "idle", pi |-> 0, mi |-> 0, lastError |-> Null, attempts |-> <<>>,
   pausedMs |-> 0, result |-> NoResult, trace |-> Null]

\* new ModelFallbackClient(config): throws when no provider key is set
NewClient(enableFallback) ==
  /\ client.kind = "none"
  /\ gen.pc = "idle"
  /\ IF Len(AvailableProviders(env)) = 0
     THEN /\ gen' = [gen EXCEPT !.pc = "ctor_threw"]
          /\ UNCHANGED client
     ELSE /\ client' = [kind |-> "client",
                        availableProviders |-> AvailableProviders(env),
                        groq |-> "GROQ_API_KEY" \in env,
                        enableFallback |-> enableFallback,
                        ctorEnv |-> env]
          /\ UNCHANGED gen

\* The environment is changed between construction and the call.
EnvChange(k) ==
  /\ gen.pc = "idle"
  /\ client.kind = "client"
  /\ Cardinality((env \ client.ctorEnv) \cup (client.ctorEnv \ env)) < MaxEnvChanges
  /\ env' = IF k \in env THEN env \ {k} ELSE env \cup {k}

\* generateContent entry: lastError = null, first provider, first model
GenerateStart ==
  /\ client.kind = "client"
  /\ gen.pc = "idle"
  /\ gen' = [gen EXCEPT !.pc = "try", !.pi = 1, !.mi = 1]

\* The position the two nested for-loops reach after (pi, mi), or <<0, 0>>
\* when both are exhausted.
NextCombo(c, pi, mi) ==
  IF mi < Len(c.availableProviders[pi].models) THEN <<pi, mi + 1>>
  ELSE IF pi < Len(c.availableProviders) THEN <<pi + 1, 1>>
  ELSE <<0, 0>>

\* Mutant: the aggregate error drops the last failure's message.
AggregateError_NoCause(lastError) ==
  [kind |-> "error", aggregate |-> TRUE,
   message |-> <<"All providers failed. Last error: ", "Unknown">>]

\* throw new Error("All providers failed. Last error: " + (lastError?.message || "Unknown"))
AggregateError(lastError) ==
  [kind |-> "error", aggregate |-> TRUE,
   message |-> <<"All providers failed. Last error: ",
                 IF lastError = Null THEN "Unknown" ELSE lastError>>]

\* Loop continuation: the next combination, or the aggregate error.
Continue(g) ==
  LET n == NextCombo(client, g.pi, g.mi) IN
  IF n = <<0, 0>>
  THEN [g EXCEPT !.pc = "threw", !.result = AggregateError(g.lastError)]
  ELSE [g EXCEPT !.pc = "try", !.pi = n[1], !.mi = n[2]]

\* After a failed call: pause and continue, re-raise, or continue.
AfterFailure(g, msg) ==
  IF isRateLimitError(msg) \/ isModelNotFoundError(msg)
  THEN [g EXCEPT !.pc = "sleep"]
  ELSE IF ~client.enableFallback
       THEN [g EXCEPT !.pc = "threw",
                      !.result = [kind |-> "error", aggregate |-> FALSE,
                                  message |-> <<msg>>]]
       ELSE Continue(g)

CurrentProvider == client.availableProviders[gen.pi]

CurrentModel == CurrentProvider.models[gen.mi]

\* One provider call succeeds; getLangfuse()?.generation(...) is absent,
\* succeeds or throws (the throw is swallowed).
\* The trace is emitted inside its own try/catch, after cleanText is
\* computed: whether tracing is disabled, emits or throws, the return
\* statement that follows is reached.
AfterTrace_Propagates(g, tr) ==
  IF tr = "threw"
  THEN AfterFailure([g EXCEPT !.result = NoResult, !.lastError = ServerErrorMsg],
                    ServerErrorMsg)
  ELSE [g EXCEPT !.pc = "returned"]

AfterTrace(g, tr) == [g EXCEPT !.pc = "returned"]

CallSucceeds(text, tr) ==
  /\ gen.pc = "try"
  /\ gen' = AfterTrace(
       [gen EXCEPT
          !.attempts = Append(@, [provider |-> CurrentProvider.name,
                                  model |-> CurrentModel,
                                  outcome |-> "ok", text |-> text]),
          !.trace = tr,
          !.result = [kind |-> "text", text |-> CleanText(text),
                      modelUsed |-> ModelUsed(CurrentProvider, CurrentModel)]], tr)

\* One provider call throws an Error with message msg.
CallFails(msg) ==
  /\ gen.pc = "try"
  /\ gen' = AfterFailure(
       [gen EXCEPT
          !.attempts = Append(@, [provider |-> CurrentProvider.name,
                                  model |-> CurrentModel,
                                  outcome |-> msg, text |-> <<>>]),
          !.lastError = msg,
          !.pausedMs = 0], msg)

\* await sleep(300); continue
SleepDone(d) ==
  /\ gen.pc = "sleep"
  /\ gen' = Continue([gen EXCEPT !.pausedMs = d])

TraceOutcomes == {"disabled", "emitted", "threw"}

FallbackInit ==
  /\ env \in SUBSET LLMEnvKeys
  /\ now = 0
  /\ client = NoClient
  /\ gen = IdleGen
  /\ rr = IdleRerank
  /\ DbInit
  /\ CachesEmpty
  /\ AppIdle

FallbackNext ==
  \/ \E ef \in BOOLEAN : NewClient(ef) /\ UNCHANGED <<env, now, rr, dbVars, cacheVars, appVars>>
  \/ \E k \in LLMEnvKeys : EnvChange(k) /\ UNCHANGED <<now, client, gen, rr, dbVars, cacheVars, appVars>>
  \/ GenerateStart /\ UNCHANGED <<env, now, client, rr, dbVars, cacheVars, appVars>>
  \/ \E t \in Texts, tr \in TraceOutcomes :
        CallSucceeds(t, tr) /\ UNCHANGED <<env, now, client, rr, dbVars, cacheVars, appVars>>
  \/ \E m \in ErrorMessages :
        CallFails(m) /\ UNCHANGED <<env, now, client, rr, dbVars, cacheVars, appVars>>
  \/ \E d \in SleepDurations(RetryPauseMs) :
        SleepDone(d) /\ UNCHANGED <<env, now, client, rr, dbVars, cacheVars, appVars>>

SpecFallback == FallbackInit /\ [][FallbackNext]_vars

\* ---------------------------------------------------------------------------
\* Properties of generateContent
\* ---------------------------------------------------------------------------
\* The priority order and credential variables the specification states.
PriorityOrder == <<"Anthropic", "Groq", "Cerebras", "OpenRouter">>

KeyOf(name) ==
  CASE name = "Anthropic" -> "ANTHROPIC_API_KEY"
    [] name = "Groq" -> "GROQ_API_KEY"
    [] name = "Cerebras" -> "CEREBRAS_API_KEY"
    [] name = "OpenRouter" -> "OPENROUTER_API_KEY"

ListedModels(name) ==
  CASE name = "Anthropic" -> <<"claude-sonnet-4-5-20250929", "claude-haiku-4-5-20251001">>
    [] name = "Groq" -> <<"llama-3.3-70b-versatile", "llama-3.1-8b-instant">>
    [] name = "Cerebras" -> <<"llama-3.3-70b", "llama-3.1-8b">>
    [] name = "OpenRouter" -> <<"meta-llama/llama-3.3-70b-instruct:free">>

\* The provider names whose key was set in environment e, in priority order.
EligibleNames(e) == SelectSeq(PriorityOrder, LAMBDA n : KeyOf(n) \in e)

\* The combinations of one provider, in listed model order.
CombosOf(name) ==
  [k \in 1..Len(ListedModels(name)) |-> <<name, ListedModels(name)[k]>>]

RECURSIVE FlattenCombos(_)
FlattenCombos(names) ==
  IF names = <<>> THEN <<>>
  ELSE CombosOf(Head(names)) \o FlattenCombos(Tail(names))

\* All provider/model combinations of environment e, in priority order.
EligibleCombos(e) == FlattenCombos(EligibleNames(e))

PauseErrors == {RateLimitMsg, NotFoundMsg, InvalidModelMsg}

FirstProviderRateLimited ==
  LET names == EligibleNames(client.ctorEnv) IN
  /\ Len(names) >= 2
  /\ \A k \in 1..Len(ListedModels(names[1])) :
        /\ k <= Len(gen.attempts)
        /\ gen.attempts[k].provider = names[1]
        /\ gen.attempts[k].outcome = RateLimitMsg

\* A call to the second available provider succeeded.
SecondProviderSucceeded ==
  \E i \in 1..Len(gen.attempts) :
    /\ gen.attempts[i].outcome = "ok"
    /\ gen.attempts[i].provider = EligibleNames(client.ctorEnv)[2]

\* C2: when every call to the first available provider was rate limited and
\* a call to the second available provider succeeded, the call returns that
\* provider's text with modelUsed naming it; and whenever the next attempt is
\* about to start after a rate-limit or model-not-found failure, at least
\* 300 ms have been paused since that failure.
C2_FailoverPause ==
  client.kind = "client" =>
    /\ (FirstProviderRateLimited /\ SecondProviderSucceeded) =>
          /\ gen.pc = "returned"
          /\ gen.result.kind = "text"
          /\ gen.result.modelUsed[1] = EligibleNames(client.ctorEnv)[2]
          /\ gen.result.text = CleanText(Last(gen.attempts).text)
    /\ (gen.pc = "try" /\ Len(gen.attempts) > 0
          /\ Last(gen.attempts).outcome \in PauseErrors) =>
          gen.pausedMs >= 300

\* C2 witness: the second provider served the call after the first was rate
\* limited on every model.
C2_Witness ==
  /\ client.kind = "client"
  /\ FirstProviderRateLimited
  /\ SecondProviderSucceeded
  /\ gen.pc = "returned"

\* Every combination was attempted and every attempt failed, and the call ended.
AllCombosFailed ==
  /\ client.kind = "client"
  /\ gen.pc \in {"returned", "threw"}
  /\ Len(gen.attempts) = Len(EligibleCombos(client.ctorEnv))
  /\ \A i \in 1..Len(gen.attempts) : gen.attempts[i].outcome # "ok"

Includes(message, part) == \E i \in 1..Len(message) : message[i] = part

AttemptedAtMostOnce ==
  \A i, j \in 1..Len(gen.attempts) :
    (gen.attempts[i].provider = gen.attempts[j].provider
       /\ gen.attempts[i].model = gen.attempts[j].model) => i = j

\* C3 as stated: when every combination has been attempted and has failed,
\* the call raises the aggregate error, whose message includes the last
\* failure's message; no combination is attempted twice and no text returned.
C3_AggregateError ==
  /\ AttemptedAtMostOnce
  /\ AllCombosFailed =>
        /\ gen.pc = "threw"
        /\ gen.result.kind = "error"
        /\ gen.result.aggregate
        /\ Includes(gen.result.message, Last(gen.attempts).outcome)

\* C3 amended: when every combination has been attempted and has failed, the
\* call raises an error whose message includes the last failure's message;
\* it is the aggregate error unless fallback is disabled and the last failure
\* is neither a rate-limit nor a model-not-found error, in which case that
\* last error itself is re-raised; no combination is attempted twice and no
\* text is returned.
C3_AggregateOrReraise ==
  /\ AttemptedAtMostOnce
  /\ AllCombosFailed =>
        /\ gen.pc = "threw"
        /\ gen.result.kind = "error"
        /\ Includes(gen.result.message, Last(gen.attempts).outcome)
        /\ gen.result.aggregate <=>
              (client.enableFallback \/ Last(gen.attempts).outcome \in PauseErrors)
        /\ ~gen.result.aggregate => gen.result.message = <<Last(gen.attempts).outcome>>

\* C3 witness: all seven combinations failed with differing messages and the
\* aggregate error was raised.
C3_Witness ==
  /\ AllCombosFailed
  /\ Len(gen.attempts) = 7
  /\ gen.attempts[1].outcome # Last(gen.attempts).outcome
  /\ gen.result.aggregate

\* ---------------------------------------------------------------------------
\* lib/reranker.ts
\* ---------------------------------------------------------------------------
\* Candidate lists have at most MaxChunks chunks; topK is at most MaxTopK.
MaxChunks == 3

MaxTopK == 2

\* Candidate chunks are named by their rank in the search result.
Candidates(n) == [i \in 1..n |-> i]

\* chunks.slice(0, k) for k >= 0
Slice(s, k) == SubSeq(s, 1, Min(k, Len(s)))

\* chunks.map(chunk => ({chunk, relevance_score: score, relevance_reason: reason}))
Scored(chunks, score, reason) ==
  [i \in 1..Len(chunks) |->
     [chunk |-> chunks[i], relevance_score |-> score, relevance_reason |-> reason]]

\* Voyage rerank responses: data[] of {index, relevance_score}, the score in
\* tenths; the top_k best in search order, or in reverse order.
VoyageResponses(n, topK) ==
  { [i \in 1..topK |-> [index |-> i - 1, relevance_score |-> 9]],
    [i \in 1..topK |-> [index |-> n - i, relevance_score |-> 10 - i]] }

\* data.data.map(item => ({chunk: chunks[item.index], relevance_score: ...}))
VoyageRanked(chunks, data) ==
  [i \in 1..Len(data) |->
     [chunk |-> chunks[data[i].index + 1],
      relevance_score |-> data[i].relevance_score,
      relevance_reason |-> "Voyage rerank score"]]

\* The markdown code fence tokens (three backquotes, with and without "json").
FenceJson == "[fence]json"

Fence == "[fence]"

\* JSON documents the scoring LLM can answer with.
NullDoc == [isNull |-> TRUE, hasScores |-> FALSE, scores |-> <<>>]

NoScoresDoc == [isNull |-> FALSE, hasScores |-> FALSE, scores |-> <<>>]

ScoresDoc(f) ==
  [isNull |-> FALSE, hasScores |-> TRUE,
   scores |-> [i \in 1..Len(f) |-> [chunk_id |-> i, score |-> f[i]]]]

LlmScores == {0, 4, 9}

\* Completions of the scoring prompt for n candidates.
RerankTexts(n) ==
  { <<W("I cannot score these")>>, <<Json(NullDoc)>>, <<Json(NoScoresDoc)>> }
  \cup { <<Json(ScoresDoc(f))>> : f \in [1..n -> LlmScores] }
  \cup { <<W(FenceJson), Json(ScoresDoc(f)), W(Fence), W(" ")>> :
           f \in [1..n -> {9}] }

\* cleanedText.replace(json fence, "").replace(fence, "")
StripFences(s) == SelectSeq(s, LAMBDA t : t.w \notin {FenceJson, Fence})

\* text.trim(), then the code fences removed when it starts with one
CleanedText(text) ==
  LET t == Trim(text) IN
  IF t # <<>> /\ Head(t).w \in {FenceJson, Fence} THEN StripFences(t) ELSE t

\* JSON.parse: exactly one document, surrounding white space allowed
JsonParses(s) == Len(Trim(s)) = 1 /\ Trim(s)[1].w = "json"

JsonValue(s) == Trim(s)[1].j

\* result.scores.find(s => s.chunk_id === i + 1)?.score || 0
ScoreOf(scores, id) ==
  IF \E k \in 1..Len(scores) : scores[k].chunk_id = id
  THEN scores[CHOOSE k \in 1..Len(scores) :
                /\ scores[k].chunk_id = id
                /\ \A h \in 1..(k - 1) : scores[h].chunk_id # id].score
  ELSE 0

\* Array.prototype.sort((a, b) => b.relevance_score - a.relevance_score),
\* a stable sort: insertion behind every element that scores at least as much.
RECURSIVE SortByScoreDesc(_)
SortByScoreDesc(s) ==
  IF s = <<>> THEN <<>>
  ELSE LET rest == SortByScoreDesc(SubSeq(s, 1, Len(s) - 1))
           x == Last(s)
           before == SelectSeq(rest, LAMBDA r : r.relevance_score >= x.relevance_score)
           after == SelectSeq(rest, LAMBDA r : r.relevance_score < x.relevance_score)
       IN before \o <<x>> \o after

MIN_RELEVANCE_SCORE == 4

\* Mutant: the filtered list is used even when it is empty.
RankByScores_AlwaysFiltered(chunks, scores, topK) ==
  LET ranked == SortByScoreDesc(
        [i \in 1..Len(chunks) |->
           [chunk |-> chunks[i],
            relevance_score |-> ScoreOf(scores, i),
            relevance_reason |-> "scored"]])
      filtered == SelectSeq(ranked, LAMBDA r : r.relevance_score >= MIN_RELEVANCE_SCORE)
  IN Slice(filtered, topK)

\* The successful-parse path of llmRerank.
RankByScores(chunks, scores, topK) ==
  LET ranked == SortByScoreDesc(
        [i \in 1..Len(chunks) |->
           [chunk |-> chunks[i],
            relevance_score |-> ScoreOf(scores, i),
            relevance_reason |-> "scored"]])
      filtered == SelectSeq(ranked, LAMBDA r : r.relevance_score >= MIN_RELEVANCE_SCORE)
  IN Slice(IF Len(filtered) > 0 THEN filtered ELSE ranked, topK)

\* What llmRerank returns for the completion text.
ParsedRanking(chunks, text, topK) ==
  LET cleaned == CleanedText(text) IN
  IF ~JsonParses(cleaned)
    THEN Scored(Slice(chunks, topK), 7, "Fallback: JSON parse failed")
  ELSE IF JsonValue(cleaned).isNull
    THEN Scored(Slice(chunks, topK), 7, "Fallback: re-ranking failed")
  ELSE IF ~JsonValue(cleaned).hasScores
    THEN Scored(Slice(chunks, topK), 7, "Fallback: invalid response structure")
  ELSE RankByScores(chunks, JsonValue(cleaned).scores, topK)

\* Mutant: as many candidates as topK are ranked like more than topK.
RerankStart_FewerOnly(n, topK) ==
  /\ rr.pc = "idle"
  /\ gen.pc = "idle"
  /\ rr' = IF n < topK
           THEN [rr EXCEPT !.pc = "done", !.chunks = Candidates(n), !.topK = topK,
                           !.result = Scored(Candidates(n), 8, "Only candidate from search")]
           ELSE [rr EXCEPT !.pc = IF "VOYAGE_API_KEY" \in env THEN "voyage" ELSE "llm",
                           !.chunks = Candidates(n), !.topK = topK]

\* rerankChunks entry: few candidates are returned as they are; otherwise
\* Voyage is tried when its key is set, else the LLM path is taken.
RerankStart(n, topK) ==
  /\ rr.pc = "idle"
  /\ gen.pc = "idle"
  /\ rr' = IF n <= topK
           THEN [rr EXCEPT !.pc = "done", !.chunks = Candidates(n), !.topK = topK,
                           !.result = Scored(Candidates(n), 8, "Only candidate from search")]
           ELSE [rr EXCEPT !.pc = IF "VOYAGE_API_KEY" \in env THEN "voyage" ELSE "llm",
                           !.chunks = Candidates(n), !.topK = topK]

\* voyageRerank resolves.
VoyageReturns(data) ==
  /\ rr.pc = "voyage"
  /\ rr' = [rr EXCEPT !.pc = "done", !.path = "voyage",
                      !.result = VoyageRanked(rr.chunks, data)]

\* voyageRerank throws (network error, timeout, non-2xx): caught, LLM path.
VoyageFails ==
  /\ rr.pc = "voyage"
  /\ rr' = [rr EXCEPT !.pc = "llm", !.path = "voyage_failed"]

\* llmRerank entry: getModelFallbackClient() outside the try block, then
\* client.generateContent(prompt) inside it.
LlmRerankStart ==
  /\ rr.pc = "llm"
  /\ IF client.kind = "none" /\ Len(AvailableProviders(env)) = 0
     THEN /\ rr' = [rr EXCEPT !.pc = "rejected", !.path = "llm"]
          /\ UNCHANGED <<client, gen>>
     ELSE /\ client' = IF client.kind = "none"
                       THEN [kind |-> "client",
                             availableProviders |-> AvailableProviders(env),
                             groq |-> "GROQ_API_KEY" \in env,
                             enableFallback |-> TRUE,
                             ctorEnv |-> env]
                       ELSE client
          /\ gen' = [IdleGen EXCEPT !.pc = "try", !.pi = 1, !.mi = 1]
          /\ rr' = [rr EXCEPT !.pc = "generating", !.path = "llm"]

\* generateContent returned: the completion is parsed and ranked.
LlmRerankReturns ==
  /\ rr.pc = "generating"
  /\ gen.pc = "returned"
  /\ rr' = [rr EXCEPT !.pc = "done",
                      !.result = ParsedRanking(rr.chunks, gen.result.text, rr.topK)]

\* generateContent threw: caught, the first topK in search order.
LlmRerankCatches ==
  /\ rr.pc = "generating"
  /\ gen.pc = "threw"
  /\ rr' = [rr EXCEPT !.pc = "done", !.path = "llm_failed",
                      !.result = Scored(Slice(rr.chunks, rr.topK), 7,
                                        "Fallback: re-ranking failed")]

\* The next request calls rerankChunks again; the singleton client stays.
NextRerankRequest ==
  /\ rr.pc \in {"done", "rejected"}
  /\ rr' = IdleRerank
  /\ gen' = IdleGen

RerankEnvKeys == {"VOYAGE_API_KEY", "GROQ_API_KEY", "OPENROUTER_API_KEY"}

RerankInit ==
  /\ env \in SUBSET RerankEnvKeys
  /\ now = 0
  /\ client = NoClient
  /\ gen = IdleGen
  /\ rr = IdleRerank
  /\ DbInit
  /\ CachesEmpty
  /\ AppIdle

RerankNext ==
  \/ \E n \in 0..MaxChunks, k \in 0..MaxTopK :
        RerankStart(n, k) /\ UNCHANGED <<env, now, client, gen, dbVars, cacheVars, appVars>>
  \/ \E data \in VoyageResponses(Len(rr.chunks), rr.topK) :
        VoyageReturns(data) /\ UNCHANGED <<env, now, client, gen, dbVars, cacheVars, appVars>>
  \/ VoyageFails /\ UNCHANGED <<env, now, client, gen, dbVars, cacheVars, appVars>>
  \/ LlmRerankStart /\ UNCHANGED <<env, now, dbVars, cacheVars, appVars>>
  \/ \E t \in RerankTexts(Len(rr.chunks)), tr \in TraceOutcomes :
        rr.pc = "generating" /\ CallSucceeds(t, tr) /\ UNCHANGED <<env, now, client, rr, dbVars, cacheVars, appVars>>
  \/ \E m \in ErrorMessages :
        rr.pc = "generating" /\ CallFails(m) /\ UNCHANGED <<env, now, client, rr, dbVars, cacheVars, appVars>>
  \/ \E d \in SleepDurations(RetryPauseMs) :
        rr.pc = "generating" /\ SleepDone(d) /\ UNCHANGED <<env, now, client, rr, dbVars, cacheVars, appVars>>
  \/ LlmRerankReturns /\ UNCHANGED <<env, now, client, gen, dbVars, cacheVars, appVars>>
  \/ LlmRerankCatches /\ UNCHANGED <<env, now, client, gen, dbVars, cacheVars, appVars>>
  \/ NextRerankRequest /\ UNCHANGED <<env, now, client, dbVars, cacheVars, appVars>>

SpecRerank == RerankInit /\ [][RerankNext]_vars

\* ---------------------------------------------------------------------------
\* Properties of rerankChunks
\* ---------------------------------------------------------------------------
\* The LLM path failed: generateContent threw, or its completion holds no
\* scores document.
LlmPathFailed ==
  /\ rr.path \in {"llm", "llm_failed"}
  /\ \/ gen.pc = "threw"
     \/ /\ gen.pc = "returned"
        /\ \A i \in 1..Len(Last(gen.attempts).text) :
              ~Last(gen.attempts).text[i].j.hasScores

\* C4: rerankChunks never rejects, and a failure in the LLM fallback path
\* yields the first topK candidates in search order, each with score 7.
C4_RerankNeverRejects ==
  /\ rr.pc # "rejected"
  /\ (rr.pc = "done" /\ LlmPathFailed) =>
        /\ Len(rr.result) = Min(rr.topK, Len(rr.chunks))
        /\ \A i \in 1..Len(rr.result) :
              rr.result[i].chunk = i /\ rr.result[i].relevance_score = 7

\* The scoring completion parsed and holds a scores array: llmRerank
\* returned the ranking by scores.
ScoresParsed ==
  /\ rr.pc = "done"
  /\ rr.path = "llm"
  /\ gen.pc = "returned"
  /\ JsonParses(CleanedText(gen.result.text))
  /\ ~JsonValue(CleanedText(gen.result.text)).isNull
  /\ JsonValue(CleanedText(gen.result.text)).hasScores

\* The score the completion gives candidate i.
GivenScore(i) == ScoreOf(JsonValue(CleanedText(gen.result.text)).scores, i)

\* At most topK chunks, all candidates, none twice, each with its score, in
\* non-increasing score order; none scored below 4 unless all are, and no
\* chunk left out that scores more than one returned or that leaves room.
RankedByScoreWithFloor ==
  LET n == Len(rr.chunks)
      eligible == IF \E i \in 1..n : GivenScore(i) >= MIN_RELEVANCE_SCORE
                  THEN {i \in 1..n : GivenScore(i) >= MIN_RELEVANCE_SCORE}
                  ELSE 1..n
      returned == {rr.result[k].chunk : k \in 1..Len(rr.result)}
  IN /\ Len(rr.result) = Min(rr.topK, Cardinality(eligible))
     /\ returned \subseteq eligible
     /\ Cardinality(returned) = Len(rr.result)
     /\ \A k \in 1..Len(rr.result) :
           rr.result[k].relevance_score = GivenScore(rr.result[k].chunk)
     /\ \A k \in 1..(Len(rr.result) - 1) :
           rr.result[k].relevance_score >= rr.result[k + 1].relevance_score
     /\ \A i \in eligible \ returned, k \in 1..Len(rr.result) :
           GivenScore(i) <= rr.result[k].relevance_score

\* C26 as stated: when the scoring response parses successfully, llmRerank
\* returns at most topK chunks, all drawn from the candidates, in
\* non-increasing score order, excluding chunks scored below 4 unless every
\* chunk scored below 4, and the result is never empty for a non-empty
\* candidate list.  It fails for topK = 0: the result is then empty.
C26_RankedNeverEmpty ==
  ScoresParsed =>
    /\ RankedByScoreWithFloor
    /\ rr.chunks # <<>> => rr.result # <<>>

\* C26, amended: when the scoring response parses successfully, llmRerank
\* returns at most topK chunks, all drawn from the candidates, in
\* non-increasing score order, excluding chunks scored below 4 unless every
\* chunk scored below 4, in which case the top topK of the unfiltered ranking
\* are returned; for topK of at least 1 the result is never empty for a
\* non-empty candidate list.
C26_RankedNonEmptyForPositiveTopK ==
  ScoresParsed =>
    /\ RankedByScoreWithFloor
    /\ rr.chunks # <<>> /\ rr.topK >= 1 => rr.result # <<>>

\* Every candidate scored below 4: the first topK of the ranking come back.
C26_Witness ==
  /\ ScoresParsed
  /\ Len(rr.chunks) = MaxChunks
  /\ rr.topK = MaxTopK
  /\ \A i \in 1..MaxChunks : GivenScore(i) = 0
  /\ Len(rr.result) = MaxTopK

\* C24: when the number of candidate chunks is at most topK, rerankChunks
\* returns every candidate, in the original order, each with score 8, and
\* invokes neither the Voyage reranker nor the LLM scoring path.
C24_FewCandidatesReturnedAsIs ==
  rr.pc # "idle" /\ Len(rr.chunks) <= rr.topK =>
     /\ rr.pc = "done"
     /\ rr.path = "none"
     /\ gen = IdleGen
     /\ Len(rr.result) = Len(rr.chunks)
     /\ \A i \in 1..Len(rr.result) :
           /\ rr.result[i].chunk = rr.chunks[i]
           /\ rr.result[i].relevance_score = 8

C24_Witness ==
  /\ rr.pc = "done"
  /\ Len(rr.chunks) = MaxTopK
  /\ rr.topK = MaxTopK
  /\ "VOYAGE_API_KEY" \in env
  /\ "GROQ_API_KEY" \in env
  /\ Len(rr.result) = MaxTopK
  /\ rr.result[MaxTopK].relevance_score = 8

\* ---------------------------------------------------------------------------
\* app/api/documents/upload (POST) and app/api/documents/process (POST)
\* ---------------------------------------------------------------------------
MAX_FILE_SIZE == 50 * 1024 * 1024

PdfType == "application/pdf"

\* File names are sequences of characters.
FileNames == { <<"a">>, <<"a", " ">>, <<"a", "_">> }

\* The characters of the file names that [a-zA-Z0-9.-] matches.
SafeChars == {"a", "A"}

\* file.name.replace(/[^a-zA-Z0-9.-]/g, "_")
SanitizedName(name) ==
  [i \in 1..Len(name) |-> IF name[i] \in SafeChars THEN name[i] ELSE "_"]

\* The storage file name: the timestamp, a dash, the sanitized name.
StoragePath(t, name) == <<t, "-">> \o SanitizedName(name)

Response(status, body) == [status |-> status, body |-> body, documentId |-> 0]

\* The lowest id without a row, or 0 when the table is full.
FreeDocId ==
  IF \E d \in DOMAIN documents : documents[d].status = "none"
  THEN CHOOSE d \in DOMAIN documents :
         /\ documents[d].status = "none"
         /\ \A e \in DOMAIN documents : documents[e].status = "none" => d <= e
  ELSE 0

\* Upload API POST. file.provided is false when the form has no "file" part;
\* storageOk and insertOk are the outcomes of the bucket upload and of the
\* insert into documents.
\* Mutant: a file of exactly the maximum size is rejected.
UploadRequest_SizeInclusive(file, storageOk, insertOk) ==
  LET path == StoragePath(now, file.name) IN
  IF ~file.provided
    THEN upload' = Response(400, "No file provided")
         /\ UNCHANGED <<documents, storage>>
  ELSE IF file.type # PdfType
    THEN upload' = Response(400, "Only PDF files are allowed")
         /\ UNCHANGED <<documents, storage>>
  ELSE IF file.size >= MAX_FILE_SIZE
    THEN upload' = Response(400, "File too large. Maximum size is 50MB.")
         /\ UNCHANGED <<documents, storage>>
  ELSE IF ~storageOk \/ path \in storage
    THEN upload' = Response(500, "Failed to upload file")
         /\ UNCHANGED <<documents, storage>>
  ELSE IF ~insertOk \/ FreeDocId = 0
    THEN upload' = Response(500, "Failed to save document record")
         /\ storage' = storage \cup {path}
         /\ UNCHANGED documents
  ELSE /\ upload' = [status |-> 200, body |-> "success", documentId |-> FreeDocId]
       /\ storage' = storage \cup {path}
       /\ documents' = [documents EXCEPT ![FreeDocId] =
            [status |-> "pending", filename |-> file.name, storage_path |-> path,
             created_at |-> now]]

UploadRequest(file, storageOk, insertOk) ==
  LET path == StoragePath(now, file.name) IN
  IF ~file.provided
    THEN upload' = Response(400, "No file provided")
         /\ UNCHANGED <<documents, storage>>
  ELSE IF file.type # PdfType
    THEN upload' = Response(400, "Only PDF files are allowed")
         /\ UNCHANGED <<documents, storage>>
  ELSE IF file.size > MAX_FILE_SIZE
    THEN upload' = Response(400, "File too large. Maximum size is 50MB.")
         /\ UNCHANGED <<documents, storage>>
  ELSE IF ~storageOk \/ path \in storage
    THEN upload' = Response(500, "Failed to upload file")
         /\ UNCHANGED <<documents, storage>>
  ELSE IF ~insertOk \/ FreeDocId = 0
    THEN upload' = Response(500, "Failed to save document record")
         /\ storage' = storage \cup {path}
         /\ UNCHANGED documents
  ELSE /\ upload' = [status |-> 200, body |-> "success", documentId |-> FreeDocId]
       /\ storage' = storage \cup {path}
       /\ documents' = [documents EXCEPT ![FreeDocId] =
            [status |-> "pending", filename |-> file.name, storage_path |-> path,
             created_at |-> now]]

UploadFiles ==
  [provided : {TRUE}, type : {PdfType}, size : {MAX_FILE_SIZE}, name : FileNames]
  \cup [provided : {TRUE}, type : {PdfType}, size : {MAX_FILE_SIZE + 1}, name : {<<"a">>}]
  \cup [provided : {TRUE}, type : {"image/png"}, size : {1024, MAX_FILE_SIZE + 1}, name : {<<"a">>}]
  \cup [provided : {FALSE}, type : {""}, size : {0}, name : {<<>>}]

\* supabase.from("documents").update({status}).eq("id", id): no row, no change
WithStatus(docs, id, status) ==
  IF docs[id].status = "none" THEN docs
  ELSE [docs EXCEPT ![id].status = status]

\* Process API POST, up to the first await: the body is read; a missing or
\* zero documentId is answered 400.
ProcessStart(r, id) ==
  /\ proc[r].pc = "idle"
  /\ started < MaxStarted
  /\ started' = started + 1
  /\ proc' = [proc EXCEPT ![r] =
       IF id = 0
       THEN [IdleProcess EXCEPT !.pc = "done",
                                !.response = Response(400, "Document ID required")]
       ELSE [IdleProcess EXCEPT !.pc = "select", !.documentId = id]]
  /\ UNCHANGED <<documents, storage, chunkRows, upload>>

\* Mutant: only a pending document is processed.
ProcessSelect_PendingOnly(r) ==
  /\ proc[r].pc = "select"
  /\ proc' = [proc EXCEPT ![r] =
       IF documents[proc[r].documentId].status # "pending"
       THEN [@ EXCEPT !.pc = "done", !.response = Response(404, "Document not found")]
       ELSE [@ EXCEPT !.pc = "mark",
                      !.storage_path = documents[proc[r].documentId].storage_path]]
  /\ UNCHANGED <<documents, storage, chunkRows, upload, started>>

\* select("*").eq("id", documentId).single(): 404 when there is no row
ProcessSelect(r) ==
  /\ proc[r].pc = "select"
  /\ proc' = [proc EXCEPT ![r] =
       IF documents[proc[r].documentId].status = "none"
       THEN [@ EXCEPT !.pc = "done", !.response = Response(404, "Document not found")]
       ELSE [@ EXCEPT !.pc = "mark",
                      !.storage_path = documents[proc[r].documentId].storage_path]]
  /\ UNCHANGED <<documents, storage, chunkRows, upload, started>>

\* update({status: "processing"}), whatever the status was
ProcessMark(r) ==
  /\ proc[r].pc = "mark"
  /\ documents' = WithStatus(documents, proc[r].documentId, "processing")
  /\ proc' = [proc EXCEPT ![r].pc = "download",
                          ![r].marked = documents[proc[r].documentId].status # "none"]
  /\ UNCHANGED <<storage, chunkRows, upload, started>>

\* storage.download(doc.storage_path): an error or no data leads to the
\* status update "error" and a 500
ProcessDownload(r, ok) ==
  /\ proc[r].pc = "download"
  /\ proc' = [proc EXCEPT ![r] =
       IF ok /\ proc[r].storage_path \in storage
       THEN [@ EXCEPT !.pc = "extract"]
       ELSE [@ EXCEPT !.pc = "mark_error",
                      !.next = Response(500, "Failed to download document")]]
  /\ UNCHANGED <<documents, storage, chunkRows, upload, started>>

\* extractText: it throws (the catch block answers 500), yields no text (the
\* status update "error" and a 400 follow) or yields text that chunkText
\* splits into n chunks.
ProcessExtract(r, outcome, n) ==
  /\ proc[r].pc = "extract"
  /\ proc' = [proc EXCEPT ![r] =
       CASE outcome = "throws" ->
              [@ EXCEPT !.pc = "done",
                        !.response = Response(500, "Failed to process document")]
         [] outcome = "empty" ->
              [@ EXCEPT !.pc = "mark_error",
                        !.next = Response(400, "Could not extract text from PDF")]
         [] outcome = "text" ->
              [@ EXCEPT !.pc = "embed", !.chunks = n]]
  /\ UNCHANGED <<documents, storage, chunkRows, upload, started>>

\* update({status: "error"}) and the error response
ProcessMarkError(r) ==
  /\ proc[r].pc = "mark_error"
  /\ documents' = WithStatus(documents, proc[r].documentId, "error")
  /\ proc' = [proc EXCEPT ![r].pc = "done", ![r].response = proc[r].next]
  /\ UNCHANGED <<storage, chunkRows, upload, started>>

\* generateEmbeddings(textChunks): a rejection reaches the catch block
ProcessEmbed(r, ok) ==
  /\ proc[r].pc = "embed"
  /\ proc' = [proc EXCEPT ![r] =
       IF ok THEN [@ EXCEPT !.pc = "store"]
       ELSE [@ EXCEPT !.pc = "done",
                      !.response = Response(500, "Failed to process document")]]
  /\ UNCHANGED <<documents, storage, chunkRows, upload, started>>

\* storeChunks(chunks): one insert of all rows; an error is thrown and
\* reaches the catch block
ProcessStore(r, ok) ==
  /\ proc[r].pc = "store"
  /\ IF ok /\ documents[proc[r].documentId].status # "none"
     THEN /\ chunkRows' = [chunkRows EXCEPT ![proc[r].documentId] = @ + proc[r].chunks]
          /\ proc' = [proc EXCEPT ![r].pc = "mark_indexed"]
     ELSE /\ proc' = [proc EXCEPT ![r].pc = "done",
                        ![r].response = Response(500, "Failed to process document")]
          /\ UNCHANGED chunkRows
  /\ UNCHANGED <<documents, storage, upload, started>>

\* update({status: "indexed"}) and the success response
ProcessMarkIndexed(r) ==
  /\ proc[r].pc = "mark_indexed"
  /\ documents' = WithStatus(documents, proc[r].documentId, "indexed")
  /\ proc' = [proc EXCEPT ![r].pc = "done", ![r].response = Response(200, "success")]
  /\ UNCHANGED <<storage, chunkRows, upload, started>>

\* The response was sent; the slot serves the next request.
ProcessDone(r) ==
  /\ proc[r].pc = "done"
  /\ proc' = [proc EXCEPT ![r] = IdleProcess]
  /\ UNCHANGED <<documents, storage, chunkRows, upload, started>>

\* supabase/migration-3072.sql: TRUNCATE TABLE chunks; every document that
\* is processing, error or indexed is reset to pending.
MigrationReset ==
  /\ chunkRows' = [d \in DocIds |-> 0]
  /\ documents' = [d \in DocIds |->
       IF documents[d].status \in {"processing", "error", "indexed"}
       THEN [documents[d] EXCEPT !.status = "pending"]
       ELSE documents[d]]
  /\ UNCHANGED <<storage, upload, proc, started>>

\* Chunks chunkText yields for one document.
MaxDocChunks == 2

ProcessInit ==
  /\ env = {}
  /\ now = 0
  /\ client = NoClient
  /\ gen = IdleGen
  /\ rr = IdleRerank
  /\ DbInit
  /\ CachesEmpty
  /\ AppIdle

ProcessNext ==
  \/ \E f \in UploadFiles, so \in BOOLEAN, io \in BOOLEAN :
        UploadRequest(f, so, io) /\ UNCHANGED <<env, now, llmVars, cacheVars, appVars, chunkRows, proc, started>>
  \/ \E r \in Requests, id \in 0..MaxDocs :
        ProcessStart(r, id) /\ UNCHANGED <<env, now, llmVars, cacheVars, appVars>>
  \/ \E r \in Requests : ProcessSelect(r) /\ UNCHANGED <<env, now, llmVars, cacheVars, appVars>>
  \/ \E r \in Requests : ProcessMark(r) /\ UNCHANGED <<env, now, llmVars, cacheVars, appVars>>
  \/ \E r \in Requests, ok \in BOOLEAN :
        ProcessDownload(r, ok) /\ UNCHANGED <<env, now, llmVars, cacheVars, appVars>>
  \/ \E r \in Requests, o \in {"throws", "empty", "text"}, n \in {MaxDocChunks} :
        ProcessExtract(r, o, n) /\ UNCHANGED <<env, now, llmVars, cacheVars, appVars>>
  \/ \E r \in Requests : ProcessMarkError(r) /\ UNCHANGED <<env, now, llmVars, cacheVars, appVars>>
  \/ \E r \in Requests, ok \in BOOLEAN :
        ProcessEmbed(r, ok) /\ UNCHANGED <<env, now, llmVars, cacheVars, appVars>>
  \/ \E r \in Requests, ok \in BOOLEAN :
        ProcessStore(r, ok) /\ UNCHANGED <<env, now, llmVars, cacheVars, appVars>>
  \/ \E r \in Requests : ProcessMarkIndexed(r) /\ UNCHANGED <<env, now, llmVars, cacheVars, appVars>>
  \/ \E r \in Requests : ProcessDone(r) /\ UNCHANGED <<env, now, llmVars, cacheVars, appVars>>
  \/ MigrationReset /\ UNCHANGED <<env, now, llmVars, cacheVars, appVars>>

SpecProcess == ProcessInit /\ [][ProcessNext]_vars

\* ---------------------------------------------------------------------------
\* Properties of the document lifecycle
\* ---------------------------------------------------------------------------
\* Request r sends its response in this step.
Completes(r) == proc[r].pc # "done" /\ proc'[r].pc = "done"

\* C5: a Process API request that set its document to processing completes
\* with the document indexed (chunks stored, success response) or error (any
\* failure); it never completes leaving the document processing.
C5_ProcessEndsIndexedOrError ==
  [][\A r \in Requests :
       (Completes(r) /\ proc[r].marked) =>
         documents'[proc[r].documentId].status =
           IF proc'[r].response.status = 200 THEN "indexed" ELSE "error"]_vars

\* The position of a status along pending -> processing -> indexed | error.
StatusRank(status) ==
  CASE status = "none" -> 0
    [] status = "pending" -> 1
    [] status = "processing" -> 2
    [] status \in {"indexed", "error"} -> 3

\* C6: no step of an Upload or Process API request moves a document to an
\* earlier status; only the migration reset does.
C6_StatusMonotonic ==
  [][(\E d \in DocIds :
        StatusRank(documents'[d].status) < StatusRank(documents[d].status))
       => (proc' = proc /\ upload' = upload)]_vars

\* ---------------------------------------------------------------------------
\* Query strings. A query is a sequence of characters; a numeral stands for a
\* run of digits.
\* ---------------------------------------------------------------------------
\* String.prototype.toLowerCase on one character.
LowerChar(c) ==
  CASE c = "A" -> "a"
    [] c = "B" -> "b"
    [] OTHER -> c

toLowerCase(s) == [i \in 1..Len(s) |-> LowerChar(s[i])]

RECURSIVE trimStart(_)
trimStart(s) == IF s # <<>> /\ Head(s) = " " THEN trimStart(Tail(s)) ELSE s

RECURSIVE trimEnd(_)
trimEnd(s) ==
  IF s # <<>> /\ Last(s) = " " THEN trimEnd(SubSeq(s, 1, Len(s) - 1)) ELSE s

\* String.prototype.trim
trim(s) == trimEnd(trimStart(s))

\* replace(/\s+/g, " "): every run of whitespace becomes one space.
RECURSIVE CollapseWhitespace(_)
CollapseWhitespace(s) ==
  IF Len(s) < 2 THEN s
  ELSE IF s[1] = " " /\ s[2] = " " THEN CollapseWhitespace(Tail(s))
  ELSE <<Head(s)>> \o CollapseWhitespace(Tail(s))

\* replace(/[?.!]+$/, ""): the trailing run of ? . ! is removed.
RECURSIVE StripTrailingPunctuation(_)
StripTrailingPunctuation(s) ==
  IF s # <<>> /\ Last(s) \in {"?", ".", "!"}
  THEN StripTrailingPunctuation(SubSeq(s, 1, Len(s) - 1))
  ELSE s

\* Mutant: no sort, the entries stay in Map order.
OldestFirst_MapOrder(stamps) == [i \in 1..Len(stamps) |-> i]

\* The positions of a Map's entries after [...cache.entries()].sort by the
\* given stamps, ascending. Array.prototype.sort is stable: entries with equal
\* stamps keep their Map order.
OldestFirst(stamps) ==
  SortSeq([i \in 1..Len(stamps) |-> i],
          LAMBDA a, b : stamps[a] < stamps[b] \/ (stamps[a] = stamps[b] /\ a < b))

\* The position of key among the entries, 0 when the Map has no such key.
PositionOf(entries, key) ==
  IF \E i \in 1..Len(entries) : entries[i].key = key
  THEN CHOOSE i \in 1..Len(entries) : entries[i].key = key
  ELSE 0

\* Map.prototype.set: an existing key keeps its position, a new key goes last.
MapSet(entries, entry) ==
  LET pos == PositionOf(entries, entry.key)
  IN IF pos = 0 THEN Append(entries, entry) ELSE [entries EXCEPT ![pos] = entry]

\* Map.prototype.delete of the entries at the given positions.
Without(entries, positions) ==
  LET left == SelectSeq([i \in 1..Len(entries) |-> i],
                        LAMBDA i : i \notin positions)
  IN [j \in 1..Len(left) |-> entries[left[j]]]

\* Date.now() moves on.
Tick(d) ==
  /\ ticks < MaxTicks
  /\ ticks' = ticks + 1
  /\ now' = now + d

\* ---------------------------------------------------------------------------
\* lib/query-cache.ts
\* ---------------------------------------------------------------------------
QueryCache_CACHE_TTL == 5 * 60 * 1000

QueryCache_MAX_CACHE_SIZE == 200

normalizeQuery(query) ==
  StripTrailingPunctuation(CollapseWhitespace(trim(toLowerCase(query))))

\* Math.ceil(MAX_CACHE_SIZE * 0.2)
EvictCount == (QueryCache_MAX_CACHE_SIZE * 2 + 9) \div 10

\* The positions of the entries setCachedResponse deletes before it stores:
\* none below capacity, else the first EvictCount of the entries sorted by
\* cachedAt.
ToEvict(entries) ==
  IF Len(entries) >= QueryCache_MAX_CACHE_SIZE
  THEN LET oldest == OldestFirst([i \in 1..Len(entries) |-> entries[i].cachedAt])
       IN {oldest[i] : i \in 1..Min(EvictCount, Len(entries))}
  ELSE {}

\* Mutant: entries never expire.
Expired_Never(entry, t) == FALSE

\* An entry getCachedResponse no longer serves at time t.
Expired(entry, t) == t - entry.cachedAt > QueryCache_CACHE_TTL

getCachedResponse(query) ==
  LET key == normalizeQuery(query)
      pos == PositionOf(qcache, key)
      op  == [op |-> "get", key |-> key, at |-> now, found |-> pos # 0,
              cachedAtBefore |-> IF pos = 0 THEN 0 ELSE qcache[pos].cachedAt,
              returned |-> "null", evicted |-> {}]
  IN /\ IF pos = 0
        THEN /\ qcache' = qcache
             /\ qlast' = op
        ELSE IF Expired(qcache[pos], now)
        THEN /\ qcache' = SelectSeq(qcache, LAMBDA e : e.key # key)
             /\ qlast' = op
        ELSE /\ qcache' = qcache
             /\ qlast' = [op EXCEPT !.returned = qcache[pos].response]
     /\ UNCHANGED <<now, ticks, ecache, ecalls>>

setCachedResponse(query, response) ==
  LET key     == normalizeQuery(query)
      pos     == PositionOf(qcache, key)
      toEvict == ToEvict(qcache)
      kept    == Without(qcache, toEvict)
  IN /\ qcache' = MapSet(kept, [key |-> key, response |-> response,
                                cachedAt |-> now])
     /\ qlast' = [op |-> "set", key |-> key, at |-> now, found |-> pos # 0,
                  cachedAtBefore |-> IF pos = 0 THEN 0 ELSE qcache[pos].cachedAt,
                  returned |-> "null",
                  evicted |-> {qcache[i] : i \in toEvict}]
     /\ UNCHANGED <<now, ticks, ecache, ecalls>>

\* Queries the callers send: another spelling of a stored key and two
\* spellings of a new one.
Queries ==
  { <<" ", "1", "?", "!">>, <<"A", " ", " ", "b">>, <<"a", " ", "b", ".">> }

Responses == {"r2"}

\* A cache that n stores of distinct queries leave behind: the first half
\* stored at time 0 and the rest at time 1 or, when restored, all stored at
\* time 0 and every other one stored again at time 1.
StoredQueries(n, restored) ==
  [i \in 1..n |->
     [key |-> <<ToString(i)>>, response |-> "r1",
      cachedAt |-> IF restored THEN i % 2 ELSE IF 2 * i <= n THEN 0 ELSE 1]]

QueryCacheSizes == {0, QueryCache_MAX_CACHE_SIZE}

QueryCacheInit ==
  /\ env = {}
  /\ now = 1
  /\ client = NoClient
  /\ gen = IdleGen
  /\ rr = IdleRerank
  /\ DbInit
  /\ AppIdle
  /\ \E n \in QueryCacheSizes, restored \in BOOLEAN :
       /\ n = 0 => ~restored
       /\ qcache = StoredQueries(n, restored)
       /\ qlast = IF n = 0 THEN NoQueryOp
                  ELSE [op |-> "set",
                        key |-> <<ToString(IF restored THEN n - 1 + (n % 2) ELSE n)>>,
                        at |-> 1,
                        found |-> restored, cachedAtBefore |-> 0,
                        returned |-> "null", evicted |-> {}]
  /\ ecache = <<>>
  /\ ecalls = [c \in Calls |-> IdleCall]
  /\ ticks = 0

QueryCacheNext ==
  \/ /\ \E d \in {1, QueryCache_CACHE_TTL} : Tick(d)
     /\ UNCHANGED <<env, llmVars, dbVars, appVars, qcache, qlast, ecache, ecalls>>
  \/ /\ \E q \in Queries : getCachedResponse(q)
     /\ UNCHANGED <<env, llmVars, dbVars, appVars>>
  \/ /\ \E q \in Queries, r \in Responses : setCachedResponse(q, r)
     /\ UNCHANGED <<env, llmVars, dbVars, appVars>>

SpecQueryCache == QueryCacheInit /\ [][QueryCacheNext]_vars

\* ---------------------------------------------------------------------------
\* lib/embedding-cache.ts
\* ---------------------------------------------------------------------------
EmbeddingCache_CACHE_TTL == 60 * 60 * 1000

EmbeddingCache_MAX_CACHE_SIZE == 1000

\* The md5 digest of the normalized query; two queries have the same digest
\* exactly when their normalized texts are the same.
hashQuery(query) == [md5 |-> CollapseWhitespace(trim(toLowerCase(query)))]

\* Mutant: the prune stops at MAX_CACHE_SIZE entries.
toDelete_NoHeadroom(entries) ==
  LET sorted == OldestFirst([i \in 1..Len(entries) |-> entries[i].timestamp])
  IN {sorted[i] : i \in 1..(Len(entries) - EmbeddingCache_MAX_CACHE_SIZE)}

\* The positions pruneCache deletes: the first size - MAX_CACHE_SIZE + 100 of
\* the entries sorted by timestamp.
toDelete(entries) ==
  LET sorted == OldestFirst([i \in 1..Len(entries) |-> entries[i].timestamp])
  IN {sorted[i] : i \in 1..(Len(entries) - EmbeddingCache_MAX_CACHE_SIZE + 100)}

pruneCache(entries) ==
  IF Len(entries) <= EmbeddingCache_MAX_CACHE_SIZE THEN entries
  ELSE Without(entries, toDelete(entries))

\* Mutant: an entry exactly CACHE_TTL old is still served.
Valid_Inclusive(cached, t) == t - cached.timestamp <= EmbeddingCache_CACHE_TTL

\* The cached entry is served at time t.
Valid(cached, t) == t - cached.timestamp < EmbeddingCache_CACHE_TTL

\* Vectors the Embedding Client returns.
Embeddings == {"v1", "v2"}

\* Mutant: a call that finds a request for its key in flight waits for that
\* request instead of making its own.
getCachedQueryEmbedding_Coalesced(c, query) ==
  LET key == hashQuery(query)
      pos == PositionOf(ecache, key)
  IN /\ ecalls[c].pc = "idle"
     /\ IF pos # 0 /\ Valid(ecache[pos], now)
        THEN ecalls' = [ecalls EXCEPT ![c] =
               [pc |-> "done", query |-> query, key |-> key,
                calledClient |-> FALSE, result |-> ecache[pos].embedding]]
        ELSE ecalls' = [ecalls EXCEPT ![c] =
               [pc |-> "awaiting", query |-> query, key |-> key,
                calledClient |-> ~\E o \in Calls \ {c} :
                                    ecalls[o].pc = "awaiting" /\ ecalls[o].key = key,
                result |-> "none"]]
     /\ UNCHANGED <<now, ticks, qcache, qlast, ecache>>

\* getCachedQueryEmbedding up to its return of the cached vector or to its
\* await of generateEmbedding.
getCachedQueryEmbedding(c, query) ==
  LET key == hashQuery(query)
      pos == PositionOf(ecache, key)
  IN /\ ecalls[c].pc = "idle"
     /\ IF pos # 0 /\ Valid(ecache[pos], now)
        THEN ecalls' = [ecalls EXCEPT ![c] =
               [pc |-> "done", query |-> query, key |-> key,
                calledClient |-> FALSE, result |-> ecache[pos].embedding]]
        ELSE ecalls' = [ecalls EXCEPT ![c] =
               [pc |-> "awaiting", query |-> query, key |-> key,
                calledClient |-> TRUE, result |-> "none"]]
     /\ UNCHANGED <<now, ticks, qcache, qlast, ecache>>

\* generateEmbedding resolves: the vector is stored, the cache pruned, and
\* the vector returned.
GenerateEmbeddingResolves(c, embedding) ==
  /\ ecalls[c].pc = "awaiting"
  /\ ecache' = pruneCache(MapSet(ecache, [key |-> ecalls[c].key,
                                          embedding |-> embedding,
                                          timestamp |-> now]))
  /\ ecalls' = [ecalls EXCEPT ![c].pc = "done", ![c].result = embedding]
  /\ UNCHANGED <<now, ticks, qcache, qlast>>

\* generateEmbedding rejects, and so does the call.
GenerateEmbeddingRejects(c) ==
  /\ ecalls[c].pc = "awaiting"
  /\ ecalls' = [ecalls EXCEPT ![c].pc = "done", ![c].result = "rejected"]
  /\ UNCHANGED <<now, ticks, qcache, qlast, ecache>>

\* The caller has the call's outcome.
EmbeddingCallSettled(c) ==
  /\ ecalls[c].pc = "done"
  /\ ecalls' = [ecalls EXCEPT ![c] = IdleCall]
  /\ UNCHANGED <<now, ticks, qcache, qlast, ecache>>

\* Queries the callers embed: a stored key and two spellings of a new one.
EmbeddingQueries ==
  { <<" ", "1">>, <<"A", " ", " ", "b">>, <<"a", " ", "b", " ">> }

\* A cache that n calls with distinct queries leave behind, every other one
\* embedded again one tick later.
StoredEmbeddings(n) ==
  [i \in 1..n |-> [key |-> hashQuery(<<ToString(i)>>), embedding |-> "v0",
                   timestamp |-> i % 2]]

EmbeddingCacheSizes == {0, EmbeddingCache_MAX_CACHE_SIZE}

EmbeddingCacheInit ==
  /\ env = {}
  /\ now = 1
  /\ client = NoClient
  /\ gen = IdleGen
  /\ rr = IdleRerank
  /\ DbInit
  /\ AppIdle
  /\ qcache = <<>>
  /\ qlast = NoQueryOp
  /\ \E n \in EmbeddingCacheSizes : ecache = StoredEmbeddings(n)
  /\ ecalls = [c \in Calls |-> IdleCall]
  /\ ticks = 0

EmbeddingCacheNext ==
  \/ /\ \E d \in {1, EmbeddingCache_CACHE_TTL - 1} : Tick(d)
     /\ UNCHANGED <<env, llmVars, dbVars, appVars, qcache, qlast, ecache, ecalls>>
  \/ /\ \E c \in Calls, q \in EmbeddingQueries : getCachedQueryEmbedding(c, q)
     /\ UNCHANGED <<env, llmVars, dbVars, appVars>>
  \/ /\ \E c \in Calls, v \in Embeddings : GenerateEmbeddingResolves(c, v)
     /\ UNCHANGED <<env, llmVars, dbVars, appVars>>
  \/ /\ \E c \in Calls : GenerateEmbeddingRejects(c)
     /\ UNCHANGED <<env, llmVars, dbVars, appVars>>
  \/ /\ \E c \in Calls : EmbeddingCallSettled(c)
     /\ UNCHANGED <<env, llmVars, dbVars, appVars>>

SpecEmbeddingCache == EmbeddingCacheInit /\ [][EmbeddingCacheNext]_vars

\* ---------------------------------------------------------------------------
\* Properties of the query response cache
\* ---------------------------------------------------------------------------
\* This step is a setCachedResponse call that evicted entries.
SetEvicts == qlast'.op = "set" /\ qlast'.evicted # {} /\ qcache' # qcache

\* The Map holds the entries in the order of their timestamps, as it does
\* when every query stored so far was a different one.
InCachedAtOrder(entries) ==
  \A i \in 1..(Len(entries) - 1) : entries[i].cachedAt <= entries[i + 1].cachedAt

\* C7: the query response cache never holds more than 200 entries; a
\* setCachedResponse call evicts only when it finds the cache full, every
\* entry it evicts has a timestamp no later than every entry it retains, the
\* evicted keys are gone, and when the queries stored were all distinct the
\* evicted entries are the first-inserted ones.
C7_QueryCacheCapacity ==
  [][/\ Len(qcache) <= 200
     /\ Len(qcache') <= 200
     /\ SetEvicts =>
          \A evicted \in {qlast'.evicted} :
            /\ Len(qcache) >= 200
            /\ \A e \in {x.cachedAt : x \in evicted} :
               \A r \in {x.cachedAt : x \in Range(qcache) \ evicted} : e <= r
            /\ \A e \in evicted :
                 e.key # qlast'.key => PositionOf(qcache', e.key) = 0
            /\ InCachedAtOrder(qcache) =>
                 evicted = {qcache[i] : i \in 1..Cardinality(evicted)}]_vars

\* A 201st distinct query was stored: the 40 oldest entries went.
C7_Witness ==
  /\ qlast.op = "set"
  /\ Cardinality(qlast.evicted) = 40
  /\ Len(qcache) = 161
  /\ PositionOf(qcache, <<"1">>) = 0

\* C8: getCachedResponse returns only an entry that is at most 5 minutes old;
\* a lookup of an entry older than 5 minutes returns null and deletes the
\* entry; a hit leaves the entry's cachedAt as it was.
C8_NoStaleResponse ==
  qlast.op = "get" =>
    LET age == qlast.at - qlast.cachedAtBefore
        pos == PositionOf(qcache, qlast.key)
    IN /\ qlast.returned # "null" =>
            /\ qlast.found
            /\ age <= 5 * 60 * 1000
            /\ pos # 0
            /\ qcache[pos].response = qlast.returned
            /\ qcache[pos].cachedAt = qlast.cachedAtBefore
       /\ (qlast.found /\ age > 5 * 60 * 1000) =>
            /\ qlast.returned = "null"
            /\ pos = 0

\* A lookup found an entry older than 5 minutes.
C8_Witness ==
  /\ qlast.op = "get"
  /\ qlast.found
  /\ qlast.at - qlast.cachedAtBefore > 5 * 60 * 1000
  /\ qlast.returned = "null"

\* ---------------------------------------------------------------------------
\* Properties of the embedding cache
\* ---------------------------------------------------------------------------
\* Call c enters getCachedQueryEmbedding in this step.
CallStarts(c) == ecalls[c].pc = "idle" /\ ecalls'[c].pc # "idle"

\* Call c's generateEmbedding resolves in this step.
CallStores(c) ==
  /\ ecalls[c].pc = "awaiting"
  /\ ecalls'[c].pc = "done"
  /\ ecalls'[c].result # "rejected"

\* C9: a getCachedQueryEmbedding call looks its query up by the lowercased,
\* trimmed, whitespace-collapsed text; when the entry is less than 1 hour old
\* the call returns the stored vector without calling the Embedding Client
\* and leaves the cache as it is; when there is no entry or the entry is
\* 1 hour old or older the call calls the Embedding Client, and once that
\* returns the entry holds the new vector and the current timestamp.
C9_EmbeddingCacheHitWithinHour ==
  [][\A c \in Calls :
       LET call == ecalls'[c]
           pos  == PositionOf(ecache, call.key)
           after == PositionOf(ecache', call.key)
       IN /\ CallStarts(c) =>
               /\ call.key.md5 = CollapseWhitespace(trim(toLowerCase(call.query)))
               /\ ecache' = ecache
               /\ IF pos # 0 /\ now - ecache[pos].timestamp < 60 * 60 * 1000
                  THEN /\ call.pc = "done"
                       /\ ~call.calledClient
                       /\ call.result = ecache[pos].embedding
                  ELSE /\ call.pc = "awaiting"
                       /\ call.calledClient
          /\ CallStores(c) =>
               /\ call.calledClient
               /\ after # 0
               /\ ecache'[after].embedding = call.result
               /\ ecache'[after].timestamp = now]_vars

\* One call was served the vector another spelling of its query had stored,
\* and the other call, finding an entry 1 hour old, replaced it.
C9_Witness ==
  LET hit  == ecalls[1]
      miss == ecalls[2]
      pos  == PositionOf(ecache, miss.key)
  IN /\ hit.pc = "done"
     /\ hit.query = <<"a", " ", "b", " ">>
     /\ ~hit.calledClient
     /\ hit.result = "v2"
     /\ miss.pc = "done"
     /\ miss.query = <<" ", "1">>
     /\ miss.calledClient
     /\ miss.result = "v1"
     /\ Len(ecache) > 100
     /\ pos # 0
     /\ ecache[pos].embedding = "v1"
     /\ ecache[pos].timestamp = now
     /\ now = 60 * 60 * 1000 + 1

MaxReturns == 3

\* requestsPerMinute values a limiter is constructed with.
RequestRates == {80, 7}

\* Math.ceil(60000 / requestsPerMinute)
MinDelayMs(requestsPerMinute) ==
  (60000 + requestsPerMinute - 1) \div requestsPerMinute

\* new EmbeddingRateLimiter(requestsPerMinute)
NewLimiter(requestsPerMinute) ==
  [NoLimiter EXCEPT !.kind = "limiter",
                    !.minDelayMs = MinDelayMs(requestsPerMinute)]

\* throttle() up to its return or to its await of sleep: with less than
\* minDelayMs elapsed since lastRequestTime it sleeps for the remainder, and
\* otherwise it stamps lastRequestTime and returns.
ThrottleStart(c) ==
  LET elapsed == now - limiter.lastRequestTime
  IN /\ limiter.calls[c].pc = "idle"
     /\ Len(limiter.returns)
          + Cardinality({d \in Calls : limiter.calls[d].pc = "sleeping"})
          < MaxReturns
     /\ IF elapsed < limiter.minDelayMs
        THEN limiter' = [limiter EXCEPT
               !.calls[c] = [pc |-> "sleeping",
                             wakeAt |-> now + (limiter.minDelayMs - elapsed)]]
        ELSE limiter' = [limiter EXCEPT
               !.lastRequestTime = now,
               !.returns = Append(@, now)]
     /\ UNCHANGED <<now, ticks>>

\* sleep resolves, no earlier than asked: lastRequestTime is stamped and
\* throttle() returns.
ThrottleWakes(c) ==
  /\ limiter.calls[c].pc = "sleeping"
  /\ now >= limiter.calls[c].wakeAt
  /\ limiter' = [limiter EXCEPT
       !.calls[c] = [pc |-> "idle", wakeAt |-> 0],
       !.lastRequestTime = now,
       !.returns = Append(@, now)]
  /\ UNCHANGED <<now, ticks>>

\* The clock moves by a millisecond, or by the limiter's interval less a
\* millisecond.
LimiterTick ==
  \E d \in {1, limiter.minDelayMs - 1} : Tick(d) /\ UNCHANGED limiter

LimiterInit ==
  /\ env = {}
  /\ now = 60000
  /\ client = NoClient
  /\ gen = IdleGen
  /\ rr = IdleRerank
  /\ DbInit
  /\ CachesEmpty
  /\ \E rpm \in RequestRates : limiter = NewLimiter(rpm)
  /\ chat = IdleChat
  /\ guard = IdleGuard
  /\ verif = IdleVerif
  /\ chunker = IdleChunker
  /\ prep = IdlePrep
  /\ hooks = IdleHooks
  /\ ui = IdleUi
  /\ dedup = IdleDedup
  /\ chunking = IdleChunking
  /\ narrative = IdleNarrative

LimiterNext ==
  \/ LimiterTick /\ UNCHANGED <<env, llmVars, dbVars, qcache, qlast, ecache, ecalls, notLimiter>>
  \/ \E c \in Calls :
       ThrottleStart(c) /\ UNCHANGED <<env, llmVars, dbVars, qcache, qlast, ecache, ecalls, notLimiter>>
  \/ \E c \in Calls :
       ThrottleWakes(c) /\ UNCHANGED <<env, llmVars, dbVars, qcache, qlast, ecache, ecalls, notLimiter>>

SpecLimiter == LimiterInit /\ [][LimiterNext]_vars

\* ---------------------------------------------------------------------------
\* Properties of the EmbeddingRateLimiter
\* ---------------------------------------------------------------------------
\* C11: any two throttle() calls on one limiter return at least minDelayMs
\* apart, minDelayMs being ceil(60000 / requestsPerMinute): 750 ms at 80
\* requests per minute.
C11_ThrottleSerializes ==
  /\ limiter.kind = "limiter" => limiter.minDelayMs \in {750, 8572}
  /\ \A i, j \in 1..Len(limiter.returns) :
       i < j => limiter.returns[j] - limiter.returns[i] >= limiter.minDelayMs


(***************************************************************************)
(* The primary Chat API: POST of src/app/api/documents/process/route.ts.   *)
(* validateQuery, withTimeout, searchWithFallback, generateVerifiedResponse*)
(* and handleApiError are imported from modules outside src/; they are     *)
(* modelled from the specification: withTimeout(p, ms) settles as p does   *)
(* or rejects with a timeout error, handleApiError maps any error to an    *)
(* {error} body and an error HTTP status.                                  *)
(***************************************************************************)
\* The largest number of chunks a search returns in the model.
MaxChatChunks == 2

\* The statuses handleApiError may choose for an internal error.
ErrorStatuses == {500, 503, 504}

\* searchWithFallback results: HybridSearchResult[] as the document id of
\* each chunk, in rank order.
SearchResults ==
  UNION {[1..n -> DocIds] : n \in 0..MaxChatChunks}

\* handleApiError(error, "Chat API") and NextResponse.json(response, {status}).
ErrorResponse(status) ==
  [NoChatResponse EXCEPT !.status = status, !.body = "error",
                         !.error = "Internal error"]

\* Step 1: the body is parsed and the query validated; an invalid query is
\* answered with the validation error, verified = true goes to the verified
\* pipeline.
ChatStart(valid, verified) ==
  /\ chat.pc = "idle"
  /\ chat' = IF ~valid
             THEN [chat EXCEPT !.pc = "done",
                     !.response = [NoChatResponse EXCEPT !.status = 400,
                                     !.body = "error", !.error = "VALIDATION_ERROR"]]
             ELSE IF verified THEN [chat EXCEPT !.pc = "verified"]
             ELSE [chat EXCEPT !.pc = "searching"]

\* generateVerifiedResponse resolves (its result is returned) or rejects (the
\* outer catch).
ChatVerified(ok, status) ==
  /\ chat.pc = "verified"
  /\ chat' = [chat EXCEPT !.pc = "done",
                !.response = IF ok
                             THEN [NoChatResponse EXCEPT !.status = 200,
                                                         !.body = "verified"]
                             ELSE ErrorResponse(status)]

AfterSearchError_Rethrow(c, outcome) ==
  [c EXCEPT !.pc = "done", !.search = outcome, !.chunks = <<>>,
            !.response = ErrorResponse(500)]

\* The inner catch of step 2 logs and does not rethrow: chunks keeps its
\* initial value [].
AfterSearchError(c, outcome) ==
  [c EXCEPT !.pc = "documents", !.search = outcome, !.chunks = <<>>]

\* Step 2: withTimeout(searchWithFallback(cleanedQuery, 5), ...) resolves
\* with the chunks, rejects with the search's error, or times out.
ChatSearch(outcome, found) ==
  /\ chat.pc = "searching"
  /\ chat' = IF outcome = "ok"
             THEN [chat EXCEPT !.pc = "documents", !.search = "ok",
                               !.chunks = found]
             ELSE AfterSearchError(chat, outcome)

\* Step 3: getDocumentById for each distinct document id; it returns null
\* for a missing row and on a database error, and those are filtered out of
\* docMap.
ChatDocuments(resolved) ==
  /\ chat.pc = "documents"
  /\ resolved \subseteq {chat.chunks[i] : i \in 1..Len(chat.chunks)}
  /\ \A d \in resolved : documents[d] # NoRow
  /\ chat' = [chat EXCEPT !.pc = "client", !.docMap = resolved]

\* Step 4: getModelFallbackClient() constructs the singleton on first use
\* (the constructor throws without any API key: the outer catch), then
\* generateContent(fullPrompt, "gemini-2.5-flash") starts under withTimeout.
ChatGenerate(status) ==
  /\ chat.pc = "client"
  /\ IF client.kind = "none" /\ Len(AvailableProviders(env)) = 0
     THEN /\ chat' = [chat EXCEPT !.pc = "done", !.generation = "no_client",
                                  !.response = ErrorResponse(status)]
          /\ UNCHANGED <<client, gen>>
     ELSE /\ client' = IF client.kind = "none"
                       THEN [kind |-> "client",
                             availableProviders |-> AvailableProviders(env),
                             groq |-> "GROQ_API_KEY" \in env,
                             enableFallback |-> TRUE,
                             ctorEnv |-> env]
                       ELSE client
          /\ gen' = [IdleGen EXCEPT !.pc = "try", !.pi = 1, !.mi = 1]
          /\ chat' = [chat EXCEPT !.pc = "generating"]

\* Step 5: one source per chunk, in order; the document name is "Unknown"
\* when the document was not resolved.
Sources(chunks, docMap) ==
  [i \in 1..Len(chunks) |->
     [ref |-> i,
      document |-> IF chunks[i] \in docMap THEN ToString(chunks[i]) ELSE "Unknown",
      hasUrl |-> chunks[i] \in docMap]]

\* generateContent resolved before the timeout: steps 5 and 6.
ChatGenerationReturns ==
  /\ chat.pc = "generating"
  /\ gen.pc = "returned"
  /\ chat' = [chat EXCEPT !.pc = "done", !.generation = "ok",
                !.response = [NoChatResponse EXCEPT
                                !.status = 200, !.body = "answer",
                                !.response = gen.result.text,
                                !.sources = Sources(chat.chunks, chat.docMap)]]

\* generateContent rejected: the outer catch.
ChatGenerationThrows(status) ==
  /\ chat.pc = "generating"
  /\ gen.pc = "threw"
  /\ chat' = [chat EXCEPT !.pc = "done", !.generation = "threw",
                          !.response = ErrorResponse(status)]

\* TIMEOUTS.LLM_GENERATION elapsed before generateContent settled: the outer
\* catch.
ChatGenerationTimeout(status) ==
  /\ chat.pc = "generating"
  /\ gen.pc \notin {"returned", "threw"}
  /\ chat' = [chat EXCEPT !.pc = "done", !.generation = "timeout",
                          !.response = ErrorResponse(status)]

\* The next request; the singleton client stays.
NextChatRequest ==
  /\ chat.pc = "done"
  /\ chat' = IdleChat
  /\ gen' = IdleGen

ChatEnvKeys == {"GROQ_API_KEY", "OPENROUTER_API_KEY"}

SearchOutcomes == {"ok", "threw", "timeout"}

ChatInit ==
  /\ env \in SUBSET ChatEnvKeys
  /\ now = 0
  /\ client = NoClient
  /\ gen = IdleGen
  /\ rr = IdleRerank
  /\ DbInit
  /\ CachesEmpty
  /\ limiter = NoLimiter
  /\ chat = IdleChat
  /\ guard = IdleGuard
  /\ verif = IdleVerif
  /\ chunker = IdleChunker
  /\ prep = IdlePrep
  /\ hooks = IdleHooks
  /\ ui = IdleUi
  /\ dedup = IdleDedup
  /\ chunking = IdleChunking
  /\ narrative = IdleNarrative

ChatNext ==
  \/ \E valid, verified \in BOOLEAN :
        ChatStart(valid, verified) /\ UNCHANGED <<env, now, llmVars, dbVars, cacheVars, notChat>>
  \/ \E ok \in BOOLEAN, status \in ErrorStatuses :
        ChatVerified(ok, status) /\ UNCHANGED <<env, now, llmVars, dbVars, cacheVars, notChat>>
  \/ \E outcome \in SearchOutcomes, found \in SearchResults :
        ChatSearch(outcome, found) /\ UNCHANGED <<env, now, llmVars, dbVars, cacheVars, notChat>>
  \/ \E resolved \in SUBSET DocIds :
        ChatDocuments(resolved) /\ UNCHANGED <<env, now, llmVars, dbVars, cacheVars, notChat>>
  \/ \E status \in ErrorStatuses :
        ChatGenerate(status) /\ UNCHANGED <<env, now, rr, dbVars, cacheVars, notChat>>
  \/ \E t \in Texts, tr \in TraceOutcomes :
        chat.pc = "generating" /\ CallSucceeds(t, tr)
        /\ UNCHANGED <<env, now, client, rr, dbVars, cacheVars, appVars>>
  \/ \E m \in ErrorMessages :
        chat.pc = "generating" /\ CallFails(m)
        /\ UNCHANGED <<env, now, client, rr, dbVars, cacheVars, appVars>>
  \/ \E d \in SleepDurations(RetryPauseMs) :
        chat.pc = "generating" /\ SleepDone(d)
        /\ UNCHANGED <<env, now, client, rr, dbVars, cacheVars, appVars>>
  \/ ChatGenerationReturns /\ UNCHANGED <<env, now, llmVars, dbVars, cacheVars, notChat>>
  \/ \E status \in ErrorStatuses :
        ChatGenerationThrows(status) /\ UNCHANGED <<env, now, llmVars, dbVars, cacheVars, notChat>>
  \/ \E status \in ErrorStatuses :
        ChatGenerationTimeout(status) /\ UNCHANGED <<env, now, llmVars, dbVars, cacheVars, notChat>>
  \/ \E file \in {f \in UploadFiles : f.type = PdfType /\ f.size = MAX_FILE_SIZE} :
        chat.pc = "idle" /\ UploadRequest(file, TRUE, TRUE)
        /\ UNCHANGED <<env, now, llmVars, cacheVars, appVars, chunkRows, proc, started>>
  \/ NextChatRequest /\ UNCHANGED <<env, now, client, rr, dbVars, cacheVars, notChat>>

SpecChat == ChatInit /\ [][ChatNext]_vars

\* C12: in the primary Chat API a hybrid search that throws or times out
\* still leads to generation with no chunks and, when generation succeeds,
\* to a 200 response carrying the answer and an empty sources list; a
\* generation that throws or times out ends the request with an error
\* response that carries no answer.
C12_SearchDegradesGenerationFails ==
  /\ chat.search \in {"threw", "timeout"} =>
       /\ chat.chunks = <<>>
       /\ chat.pc \in {"documents", "client", "generating", "done"}
       /\ chat.pc = "done" => chat.generation # "none"
       /\ chat.generation = "ok" =>
            /\ chat.response.status = 200
            /\ chat.response.body = "answer"
            /\ chat.response.response = gen.result.text
            /\ chat.response.sources = <<>>
  /\ chat.generation \in {"threw", "timeout"} =>
       /\ chat.pc = "done"
       /\ chat.response.body = "error"
       /\ chat.response.status >= 400
       /\ chat.response.response = <<>>

C12_Witness ==
  /\ chat.pc = "done"
  /\ chat.search = "timeout"
  /\ chat.generation = "ok"
  /\ chat.response.sources = <<>>
  /\ chat.response.response # <<>>


(***************************************************************************)
(* Tracing inside generateContent (model-fallback.ts 245-258).             *)
(***************************************************************************)
\* C13: a trace emission that throws after a successful provider call does
\* not change the outcome of generateContent: the call has returned, the
\* successful attempt is the last one, and the result is the cleaned text and
\* the modelUsed of that attempt, which do not depend on the trace outcome.
C13_TraceFailureHarmless ==
  gen.trace = "threw" =>
    /\ gen.pc = "returned"
    /\ Len(gen.attempts) > 0
    /\ LET a == gen.attempts[Len(gen.attempts)] IN
         /\ a.outcome = "ok"
         /\ gen.result = [kind |-> "text", text |-> CleanText(a.text),
                          modelUsed |-> <<a.provider, "/", a.model>>]
    /\ gen.lastError \in {Null} \cup {gen.attempts[i].outcome :
                                        i \in 1..(Len(gen.attempts) - 1)}

C13_Witness ==
  /\ gen.trace = "threw"
  /\ gen.pc = "returned"
  /\ Len(gen.attempts) = 2
  /\ gen.result.kind = "text"
  /\ gen.result.text = <<W("answer")>>
  /\ gen.attempts[2].text # gen.result.text


(***************************************************************************)
(* Guardrails: applyGuardrails of src/unnamed/part_002.                    *)
(***************************************************************************)
\* The most claims a verification result holds in the model.
MaxClaims == 3

\* ClaimVerificationResult, as far as applyGuardrails reads it: verified and
\* whether claim_numbers is non-empty.
ClaimResults == [verified : BOOLEAN, numeric : BOOLEAN]

\* verification.confidence is Math.round of a percentage.
Confidences == {0, 49, 50, 69, 70, 89, 90, 100}

SourceTypes == {"documents", "general_knowledge"}

\* claims.filter(c => !c.verified && c.claim_numbers.length > 0).length
numericalFailures(claims) ==
  Cardinality({i \in 1..Len(claims) : ~claims[i].verified /\ claims[i].numeric})

\* claims.filter(c => c.claim_numbers.length > 0).length
totalNumerical(claims) ==
  Cardinality({i \in 1..Len(claims) : claims[i].numeric})

\* Mutant: exactly half of the numeric claims failing already refuses.
applyGuardrails_HalfRefuses(claims, source_type, confidence) ==
  IF Len(claims) = 0 /\ source_type = "documents" THEN "refuse"
  ELSE IF numericalFailures(claims) > 0
       THEN IF 2 * numericalFailures(claims) >= totalNumerical(claims)
            THEN "refuse" ELSE "regenerate"
  ELSE IF confidence >= 90 THEN "return"
  ELSE IF confidence >= 70 THEN "return"
  ELSE IF confidence >= 50 THEN "regenerate"
  ELSE "refuse"

\* applyGuardrails(verification, response).action; stats.total_claims is the
\* length of verification.claims (verifyResponse), and
\* numericalFailures.length > totalNumerical / 2 is compared doubled.
applyGuardrails(claims, source_type, confidence) ==
  IF Len(claims) = 0 /\ source_type = "documents" THEN "refuse"
  ELSE IF numericalFailures(claims) > 0
       THEN IF 2 * numericalFailures(claims) > totalNumerical(claims)
            THEN "refuse" ELSE "regenerate"
  ELSE IF confidence >= 90 THEN "return"
  ELSE IF confidence >= 70 THEN "return"
  ELSE IF confidence >= 50 THEN "regenerate"
  ELSE "refuse"

\* verifyClaims pushes the result of one more claim (results.push).
PushClaimResult(c) ==
  /\ guard.pc = "verifying"
  /\ Len(guard.claims) < MaxClaims
  /\ guard' = [guard EXCEPT !.claims = Append(@, c)]

\* applyGuardrails is called on the verification result and the response,
\* and returns its action.
ApplyGuardrails(source_type, confidence) ==
  /\ guard.pc = "verifying"
  /\ guard' = [guard EXCEPT !.pc = "done",
                 !.source_type = source_type,
                 !.confidence = confidence,
                 !.action = applyGuardrails(guard.claims, source_type, confidence)]

\* The next response is verified and judged.
NextGuardrailsCall ==
  /\ guard.pc = "done"
  /\ guard' = [IdleGuard EXCEPT !.pc = "verifying"]

GuardInit ==
  /\ env = {}
  /\ now = 0
  /\ client = NoClient
  /\ gen = IdleGen
  /\ rr = IdleRerank
  /\ DbInit
  /\ CachesEmpty
  /\ limiter = NoLimiter
  /\ chat = IdleChat
  /\ guard = [IdleGuard EXCEPT !.pc = "verifying"]
  /\ verif = IdleVerif
  /\ chunker = IdleChunker
  /\ prep = IdlePrep
  /\ hooks = IdleHooks
  /\ ui = IdleUi
  /\ dedup = IdleDedup
  /\ chunking = IdleChunking
  /\ narrative = IdleNarrative

GuardNext ==
  \/ \E c \in ClaimResults :
        PushClaimResult(c) /\ UNCHANGED <<env, now, llmVars, dbVars, cacheVars, notGuard>>
  \/ \E source_type \in SourceTypes, confidence \in Confidences :
        ApplyGuardrails(source_type, confidence)
        /\ UNCHANGED <<env, now, llmVars, dbVars, cacheVars, notGuard>>
  \/ NextGuardrailsCall /\ UNCHANGED <<env, now, llmVars, dbVars, cacheVars, notGuard>>

SpecGuard == GuardInit /\ [][GuardNext]_vars

\* C14: applyGuardrails always answers return, regenerate or refuse, and
\* (1) no claims with source_type documents refuses whatever the confidence;
\* otherwise (2) with a failed numeric claim it refuses when more than half of
\* the numeric claims failed and regenerates when not; otherwise (3) it
\* returns at confidence 70 or more, regenerates from 50 to 69 and refuses
\* below 50.
C14_GuardrailDecision ==
  guard.pc = "done" =>
    LET n == Len(guard.claims)
        numeric == {i \in 1..n : guard.claims[i].numeric}
        failed == {i \in numeric : ~guard.claims[i].verified}
        first == n = 0 /\ guard.source_type = "documents"
        second == ~first /\ failed # {}
        third == ~first /\ failed = {}
    IN /\ guard.action \in {"return", "regenerate", "refuse"}
       /\ first => guard.action = "refuse"
       /\ second /\ 2 * Cardinality(failed) > Cardinality(numeric) =>
            guard.action = "refuse"
       /\ second /\ 2 * Cardinality(failed) <= Cardinality(numeric) =>
            guard.action = "regenerate"
       /\ third /\ guard.confidence >= 70 => guard.action = "return"
       /\ third /\ guard.confidence >= 50 /\ guard.confidence < 70 =>
            guard.action = "regenerate"
       /\ third /\ guard.confidence < 50 => guard.action = "refuse"

\* Exactly half of the numeric claims failed, at full confidence: regenerate.
C14_Witness ==
  /\ guard.pc = "done"
  /\ numericalFailures(guard.claims) = 1
  /\ totalNumerical(guard.claims) = 2
  /\ guard.confidence = 100
  /\ guard.action = "regenerate"


(***************************************************************************)
(* Claim verification: verifyClaimAgainstSource, verifyNumbers, fuzzyMatch *)
(* (src/unnamed/part_002) and extractNumericalValues                       *)
(* (src/lib/structured-output.ts).  Texts are sequences of characters;     *)
(* numbers are held as multiples of 1/Scale.    The texts of the model carry the unit *)
(* "%" only and no "," or "/", so the thousands separators of the patterns *)
(* and the fraction pattern never match.                                   *)
(***************************************************************************)
\* The decimals a number keeps in the model.
Decimals == 3

Scale == 10 ^ Decimals

DigitChars == {"0", "1", "2", "3", "4", "5", "6", "7", "8", "9"}

UnitChars == {"%"}

DigitValue(c) == CHOOSE d \in 0..9 : ToString(d) = c

\* The last position of the run of characters of set cs that starts at p
\* (p - 1 when s[p] is not in cs).
RECURSIVE RunEnd(_, _, _)
RunEnd(s, p, cs) ==
  IF p <= Len(s) /\ s[p] \in cs THEN RunEnd(s, p + 1, cs) ELSE p - 1

\* \d+(?:\.\d+)? at p: the position where the number ends, p - 1 for none.
NumberEnd(s, p) ==
  LET q == RunEnd(s, p, DigitChars) IN
  IF q >= p /\ q + 1 <= Len(s) /\ s[q + 1] = "."
       /\ RunEnd(s, q + 2, DigitChars) >= q + 2
  THEN RunEnd(s, q + 2, DigitChars)
  ELSE q

RECURSIVE IntegerValue(_)
IntegerValue(digits) ==
  IF digits = <<>> THEN 0
  ELSE 10 * IntegerValue(SubSeq(digits, 1, Len(digits) - 1))
         + DigitValue(Last(digits))

\* parseFloat of the characters p..q of s, in units of 1/Scale.
parseFloat(s, p, q) ==
  LET e == RunEnd(s, p, DigitChars)
      frac == IF e < q THEN SubSeq(s, e + 2, q) ELSE <<>>
      digits == [i \in 1..Decimals |-> IF i <= Len(frac) THEN frac[i] ELSE "0"]
  IN Scale * IntegerValue(SubSeq(s, p, e)) + IntegerValue(digits)

\* The first pattern at p: number, \s*, unit.  The value and the end of the
\* match, or end 0 when it does not match at p.
UnitMatchAt(s, p) ==
  LET n == NumberEnd(s, p)
      u == RunEnd(s, n + 1, {" "}) + 1
  IN IF n >= p /\ u <= Len(s) /\ s[u] \in UnitChars
     THEN [end |-> u, value |-> parseFloat(s, p, n), unit |-> s[u]]
     ELSE [end |-> 0, value |-> 0, unit |-> ""]

\* The third pattern at p: number, \s*, "-", \s*, number, \s*, unit; the
\* value is the first number.
RangeMatchAt(s, p) ==
  LET n == NumberEnd(s, p)
      d == RunEnd(s, n + 1, {" "}) + 1
      m == RunEnd(s, d + 1, {" "}) + 1
      second == UnitMatchAt(s, m)
  IN IF n >= p /\ d <= Len(s) /\ s[d] = "-" /\ second.end > 0
     THEN [end |-> second.end, value |-> parseFloat(s, p, n), unit |-> second.unit]
     ELSE [end |-> 0, value |-> 0, unit |-> ""]

\* while ((match = pattern.exec(text)) !== null): the matches from position
\* p on, leftmost first, each search resuming after the previous match.
RECURSIVE UnitMatches(_, _)
UnitMatches(s, p) ==
  IF p > Len(s) THEN <<>>
  ELSE CHOOSE rest \in {IF match.end > 0
                        THEN <<match>> \o UnitMatches(s, match.end + 1)
                        ELSE UnitMatches(s, p + 1) :
                        match \in {UnitMatchAt(s, p)}} : TRUE

RECURSIVE RangeMatches(_, _)
RangeMatches(s, p) ==
  IF p > Len(s) THEN <<>>
  ELSE CHOOSE rest \in {IF match.end > 0
                        THEN <<match>> \o RangeMatches(s, match.end + 1)
                        ELSE RangeMatches(s, p + 1) :
                        match \in {RangeMatchAt(s, p)}} : TRUE

\* extractNumericalValues(text).map(e => e.value): the matches of the
\* patterns in turn, deduplicated by value and unit (first kept).
\* seen.has(key) on value and unit: the first of equal matches is kept.
Deduplicated(results) ==
  LET kept == {i \in 1..Len(results) :
                 \A j \in 1..(i - 1) :
                    <<results[j].value, results[j].unit>>
                      # <<results[i].value, results[i].unit>>}
      pick == SelectSeq([i \in 1..Len(results) |-> i], LAMBDA i : i \in kept)
  IN [i \in 1..Len(pick) |-> results[pick[i]].value]

extractNumbersFromText(text) ==
  CHOOSE values \in {Deduplicated(results) :
                      results \in {UnitMatches(text, 1) \o RangeMatches(text, 1)}} : TRUE

Abs(x) == IF x < 0 THEN -x ELSE x

\* Mutant: the tolerance is a whole unit.
verifyNumbers_Loose(claimNumbers, sourceNumbers) ==
  IF Len(claimNumbers) = 0 THEN TRUE
  ELSE \A i \in 1..Len(claimNumbers) :
         \E j \in 1..Len(sourceNumbers) :
            Abs(claimNumbers[i] - sourceNumbers[j]) < 10 * Scale

\* verifyNumbers: Math.abs(claimNum - sourceNum) < 0.01
verifyNumbers(claimNumbers, sourceNumbers) ==
  IF Len(claimNumbers) = 0 THEN TRUE
  ELSE \A i \in 1..Len(claimNumbers) :
         \E j \in 1..Len(sourceNumbers) :
            Abs(claimNumbers[i] - sourceNumbers[j]) < Scale \div 100

WordChars == DigitChars \cup {"a", "b", "c", "_"}

\* normalizeText: lower case, every character outside \w and \s becomes a
\* space, runs of whitespace collapse, the ends are trimmed.
normalizeText(text) ==
  LET lower == toLowerCase(text) IN
  trim(CollapseWhitespace(
    [i \in 1..Len(lower) |->
       IF lower[i] \in WordChars \cup {" "} THEN lower[i] ELSE " "]))

\* String.prototype.includes
includes(haystack, needle) ==
  \E i \in 0..(Len(haystack) - Len(needle)) :
     SubSeq(haystack, i + 1, i + Len(needle)) = needle

Min3(x, y, z) ==
  IF x <= y /\ x <= z THEN x ELSE IF y <= z THEN y ELSE z

\* One row of the matrix from the row above: acc is the row so far.  Each
\* cell is computed once and bound before the row is continued.
RECURSIVE MatrixRow(_, _, _, _)
MatrixRow(prev, ch, s2, acc) ==
  IF Len(acc) = Len(s2) + 1 THEN acc
  ELSE LET j == Len(acc)
           cost == IF ch = s2[j] THEN 0 ELSE 1
       IN CHOOSE row \in {MatrixRow(prev, ch, s2, Append(acc, cell)) :
                           cell \in {Min3(prev[j + 1] + 1, acc[j] + 1,
                                          prev[j] + cost)}} : TRUE

\* The rows in turn; the value is matrix[s1.length][s2.length].
RECURSIVE MatrixRows(_, _, _, _)
MatrixRows(s1, s2, i, prev) ==
  IF i > Len(s1) THEN prev[Len(s2) + 1]
  ELSE CHOOSE d \in {MatrixRows(s1, s2, i + 1, row) :
                      row \in {MatrixRow(prev, s1[i], s2, <<prev[1] + 1>>)}} : TRUE

\* levenshteinDistance (the texts of the model are shorter than 200).
levenshteinDistance(a, b) ==
  MatrixRows(a, b, 1, [j \in 1..(Len(b) + 1) |-> j - 1])

\* fuzzyMatch for a needle of at most 50 normalized characters:
\* Math.max(0, Math.round(100 - distance / needle.length * 100)).
fuzzyMatch(needle, haystack) ==
  LET n == normalizeText(needle)
      h == normalizeText(haystack)
  IN IF includes(h, n) THEN 100
     ELSE LET rounded == (200 * (Len(n) - levenshteinDistance(n, h)) + Len(n))
                           \div (2 * Len(n))
          IN IF rounded < 0 THEN 0 ELSE rounded

\* verifyClaimAgainstSource(claim, sourceMap): found tells whether
\* sourceMap has claim.source_ref, content is that source's content.
verifyClaimAgainstSource(claim, exact_quote, found, content) ==
  IF ~found
  THEN [verified |-> FALSE, quote_match_score |-> 0, numbers_verified |-> FALSE,
        claim_numbers |-> extractNumbersFromText(claim)]
  ELSE CHOOSE result \in
         {[verified |-> /\ (quoteMatchScore >= 60 \/ Len(exact_quote) = 0)
                        /\ (Len(claimNumbers) = 0
                              \/ verifyNumbers(claimNumbers, sourceNumbers)),
           quote_match_score |-> quoteMatchScore,
           numbers_verified |-> verifyNumbers(claimNumbers, sourceNumbers),
           claim_numbers |-> claimNumbers] :
            quoteMatchScore \in {IF exact_quote # <<>>
                                 THEN fuzzyMatch(exact_quote, content) ELSE 0},
            claimNumbers \in {extractNumbersFromText(claim)},
            sourceNumbers \in {extractNumbersFromText(content)}} : TRUE

ClaimTexts ==
  { <<"a", " ", "6", "5", "%">>,
    <<"a", " ", "6", "5">>,
    <<"a", "b">>,
    <<"6", "5", ".", "0", "0", "5", "%">>,
    <<"6", "0", "-", "6", "5", "%">>,
    <<"6", "5", ".", "0", "1", "%">> }

SourceContents ==
  { <<"a", " ", "6", "5", ".", "0", "0", "%">>,
    <<"a", " ", "7", "0", "%">>,
    <<"a", "b", "c">>,
    <<"6", "0", " ", "-", " ", "6", "5", ".", "0", "0", "%">>,
    <<"B", " ", "6", "5", ".", "0", "0", "9", " ", "%">> }

ExactQuotes ==
  { <<>>,
    <<"a">>,
    <<"c", "c">>,
    <<"a", "b", "b">> }

VerifInputs ==
  [pc : {"called"}, claim : ClaimTexts, exact_quote : ExactQuotes,
   found : BOOLEAN, content : SourceContents, verified : {FALSE},
   quote_match_score : {0}, claim_numbers : {<<>>}, numbers_verified : {FALSE}]

\* The call returns the claim's verification result.
VerifyClaimAgainstSource ==
  /\ verif.pc = "called"
  /\ \A r \in {verifyClaimAgainstSource(verif.claim, verif.exact_quote,
                                         verif.found, verif.content)} :
        verif' = [verif EXCEPT !.pc = "done",
                    !.verified = r.verified,
                    !.quote_match_score = r.quote_match_score,
                    !.claim_numbers = r.claim_numbers,
                    !.numbers_verified = r.numbers_verified]

\* verifyClaims goes on to the next claim.
NextClaim ==
  /\ verif.pc = "done"
  /\ verif' \in VerifInputs

VerifInit ==
  /\ env = {}
  /\ now = 0
  /\ client = NoClient
  /\ gen = IdleGen
  /\ rr = IdleRerank
  /\ DbInit
  /\ CachesEmpty
  /\ limiter = NoLimiter
  /\ chat = IdleChat
  /\ guard = IdleGuard
  /\ verif \in VerifInputs
  /\ chunker = IdleChunker
  /\ prep = IdlePrep
  /\ hooks = IdleHooks
  /\ ui = IdleUi
  /\ dedup = IdleDedup
  /\ chunking = IdleChunking
  /\ narrative = IdleNarrative

VerifNext ==
  \/ VerifyClaimAgainstSource /\ UNCHANGED <<env, now, llmVars, dbVars, cacheVars, notVerif>>
  \/ NextClaim /\ UNCHANGED <<env, now, llmVars, dbVars, cacheVars, notVerif>>

SpecVerif == VerifInit /\ [][VerifNext]_vars

\* The claim's numbers all have a number of the cited source within 0.01.
AllNumbersInSource(v) ==
  \A i \in 1..Len(v.claim_numbers) :
     \E x \in {extractNumbersFromText(v.content)[j] :
                 j \in 1..Len(extractNumbersFromText(v.content))} :
        /\ v.claim_numbers[i] - x < Scale \div 100
        /\ x - v.claim_numbers[i] < Scale \div 100

\* The quote and number conditions of a claim's verification.
QuoteAndNumbersHold(v) ==
  /\ (v.quote_match_score >= 60 \/ v.exact_quote = <<>>)
  /\ (v.claim_numbers = <<>> \/ AllNumbersInSource(v))

MaxBlocks == 3

LineKinds == {"caption", "header", "data", "prose"}

\* The number of characters of a line of each kind.
LineLength(kind) ==
  CASE kind = "caption" -> 15
    [] kind = "header" -> 17
    [] kind = "data" -> 16
    [] kind = "prose" -> 700

\* The index, in the block's text, of the first character of line k.
RECURSIVE LineStart(_, _)
LineStart(block, k) ==
  IF k = 1 THEN 0
  ELSE LineStart(block, k - 1) + LineLength(block[k - 1]) + 1

\* block.length
BlockLength(block) ==
  IF block = <<>> THEN 0
  ELSE LineStart(block, Len(block)) + LineLength(block[Len(block)])

\* TABLE_PATTERNS.tableStart.test(text) with the g flag: the search starts
\* at lastIndex; a match is a caption line that starts at or after it, and
\* leaves lastIndex at the end of that line; no match resets lastIndex to 0.
tableStartTest(block, lastIndex) ==
  LET found == {k \in 1..Len(block) :
                  block[k] = "caption" /\ LineStart(block, k) >= lastIndex}
  IN IF found = {}
     THEN [matched |-> FALSE, lastIndex |-> 0]
     ELSE LET k == CHOOSE x \in found : \A y \in found : x <= y
          IN [matched |-> TRUE,
              lastIndex |-> LineStart(block, k) + LineLength(block[k])]

\* The rest of isLikelyTable: column headers with more than half of the
\* lines data rows (a header row is one too); no line of the model has a tab
\* or three spaces in a row.
LooksTabular(block) ==
  LET hasHeaders == \E k \in 1..Len(block) : block[k] = "header"
      structuredLines == {k \in 1..Len(block) : block[k] \in {"header", "data"}}
  IN hasHeaders /\ 2 * Cardinality(structuredLines) > Len(block)

\* isLikelyTable(block), and the lastIndex it leaves behind.
isLikelyTable(block, lastIndex) ==
  LET t == tableStartTest(block, lastIndex)
  IN [isTable |-> t.matched \/ LooksTabular(block), lastIndex |-> t.lastIndex]

\* section.content.length: the blocks joined by two newlines.
RECURSIVE SectionLength(_, _)
SectionLength(blocks, members) ==
  IF members = <<>> THEN 0
  ELSE BlockLength(blocks[Head(members)])
         + (IF Len(members) > 1 THEN 2 ELSE 0)
         + SectionLength(blocks, Tail(members))

chunkSize == 1000

overlap == 200

\* chunkNarrativeText(text, chunkSize, overlap).length for a text of n
\* characters without blank stretches.
NarrativeChunkCount(n) ==
  IF n <= chunkSize THEN 1
  ELSE (n + (chunkSize - overlap) - 1) \div (chunkSize - overlap)

\* One iteration of the loop of splitIntoSections: the block is classified,
\* the other kind's pending section is flushed, the block is added to the
\* pending section of its kind.
ClassifyBlock ==
  /\ chunker.pc = "splitting"
  /\ chunker.i <= Len(chunker.blocks)
  /\ LET r == isLikelyTable(chunker.blocks[chunker.i], chunker.lastIndex) IN
     chunker' =
       IF r.isTable
       THEN [chunker EXCEPT
               !.lastIndex = r.lastIndex, !.i = @ + 1,
               !.sections = IF chunker.currentNarrative # <<>>
                            THEN Append(@, [members |-> chunker.currentNarrative,
                                            isTable |-> FALSE])
                            ELSE @,
               !.currentNarrative = <<>>,
               !.currentTable = Append(@, chunker.i)]
       ELSE [chunker EXCEPT
               !.lastIndex = r.lastIndex, !.i = @ + 1,
               !.sections = IF chunker.currentTable # <<>>
                            THEN Append(@, [members |-> chunker.currentTable,
                                            isTable |-> TRUE])
                            ELSE @,
               !.currentTable = <<>>,
               !.currentNarrative = Append(@, chunker.i)]

\* The chunks of one section: a table section is one chunk, a narrative
\* section is cut by chunkNarrativeText.
SectionChunks(blocks, section) ==
  IF section.isTable
  THEN <<[type |-> "table", members |-> section.members, part |-> 1, parts |-> 1]>>
  ELSE LET n == NarrativeChunkCount(SectionLength(blocks, section.members))
       IN [k \in 1..n |-> [type |-> "narrative", members |-> section.members,
                           part |-> k, parts |-> n]]

RECURSIVE AllChunks(_, _)
AllChunks(blocks, sections) ==
  IF sections = <<>> THEN <<>>
  ELSE SectionChunks(blocks, Head(sections)) \o AllChunks(blocks, Tail(sections))

\* The end of splitIntoSections (the pending sections are flushed, narrative
\* first) and the loop of createStructuredChunks over the page's sections;
\* extractTableTitle calls text.match with the g pattern for every table
\* section, which leaves lastIndex at 0.
EmitChunks ==
  /\ chunker.pc = "splitting"
  /\ chunker.i > Len(chunker.blocks)
  /\ LET flushed ==
           chunker.sections
             \o (IF chunker.currentNarrative # <<>>
                 THEN <<[members |-> chunker.currentNarrative, isTable |-> FALSE]>>
                 ELSE <<>>)
             \o (IF chunker.currentTable # <<>>
                 THEN <<[members |-> chunker.currentTable, isTable |-> TRUE]>>
                 ELSE <<>>)
     IN chunker' = [chunker EXCEPT
          !.pc = "emitted",
          !.sections = flushed,
          !.currentNarrative = <<>>,
          !.currentTable = <<>>,
          !.lastIndex = IF \E k \in 1..Len(flushed) : flushed[k].isTable
                        THEN 0 ELSE @,
          !.chunks = AllChunks(chunker.blocks, flushed)]

\* The blocks a page is made of in the model.
Blocks ==
  { <<"caption", "prose", "prose">>,
    <<"caption", "header", "data">>,
    <<"prose", "caption", "data">>,
    <<"header", "data", "data">>,
    <<"prose", "prose">> }

Pages == UNION {[1..n -> Blocks] : n \in 1..MaxBlocks}

\* The next page of the text, or the first page of the next call; lastIndex
\* is what the previous page left.
NextPage(blocks) ==
  /\ chunker.pc \in {"idle", "emitted"}
  /\ chunker' = [IdleChunker EXCEPT !.pc = "splitting", !.blocks = blocks,
                                    !.i = 1, !.lastIndex = chunker.lastIndex]

ChunkerInit ==
  /\ env = {}
  /\ now = 0
  /\ client = NoClient
  /\ gen = IdleGen
  /\ rr = IdleRerank
  /\ DbInit
  /\ CachesEmpty
  /\ limiter = NoLimiter
  /\ chat = IdleChat
  /\ guard = IdleGuard
  /\ verif = IdleVerif
  /\ chunker = IdleChunker
  /\ prep = IdlePrep
  /\ hooks = IdleHooks
  /\ ui = IdleUi
  /\ dedup = IdleDedup
  /\ chunking = IdleChunking
  /\ narrative = IdleNarrative

ChunkerNext ==
  \/ \E blocks \in Pages :
        NextPage(blocks) /\ UNCHANGED <<env, now, llmVars, dbVars, cacheVars, notChunker>>
  \/ ClassifyBlock /\ UNCHANGED <<env, now, llmVars, dbVars, cacheVars, notChunker>>
  \/ EmitChunks /\ UNCHANGED <<env, now, llmVars, dbVars, cacheVars, notChunker>>

SpecChunker == ChunkerInit /\ [][ChunkerNext]_vars

\* C16: every block with a "Table N" caption line is emitted in exactly one
\* chunk, of type table: it is never part of a narrative chunk and never cut,
\* whatever its length and whatever was classified before it.
C16_CaptionBlocksAreTables ==
  chunker.pc = "emitted" =>
    \A b \in 1..Len(chunker.blocks) :
       (\E k \in 1..Len(chunker.blocks[b]) : chunker.blocks[b][k] = "caption") =>
          /\ Cardinality({c \in 1..Len(chunker.chunks) :
               \E m \in 1..Len(chunker.chunks[c].members) :
                  chunker.chunks[c].members[m] = b}) = 1
          /\ \A c \in 1..Len(chunker.chunks) :
               (\E m \in 1..Len(chunker.chunks[c].members) :
                   chunker.chunks[c].members[m] = b)
                 => chunker.chunks[c].type = "table"


(***************************************************************************)
(* Upload API validation (src/app/api/leads/route.ts 95-185).              *)
(***************************************************************************)
\* The Upload API on its own: requests, and the clock that names the blobs.
UploadNext ==
  \/ \E f \in UploadFiles, so \in BOOLEAN, io \in BOOLEAN :
        UploadRequest(f, so, io)
        /\ UNCHANGED <<env, now, llmVars, cacheVars, appVars, chunkRows, proc, started>>
  \/ Tick(1) /\ UNCHANGED <<env, llmVars, dbVars, qcache, qlast, ecache, ecalls, appVars>>

SpecUpload == ProcessInit /\ [][UploadNext]_vars

\* C17: an Upload API request is rejected with 400 exactly when no file was
\* provided, or its MIME type is not application/pdf, or its size is above
\* 52,428,800 bytes; a PDF of 52,428,801 bytes gets the size-limit message, a
\* non-PDF gets the PDF-only message whatever its size, a rejected request
\* leaves the bucket and the documents table as they were, and a valid file
\* whose storage and insert succeed is answered with success.
C17_UploadAcceptance ==
  [][\A file \in UploadFiles : \A storageOk, insertOk \in BOOLEAN :
       UploadRequest(file, storageOk, insertOk) =>
         \A valid \in {file.provided /\ file.type = "application/pdf"
                         /\ file.size <= 52428800} :
           /\ upload'.status = 400 <=> ~valid
           /\ ~valid => storage' = storage /\ documents' = documents
           /\ file.provided /\ file.type = "application/pdf"
                /\ file.size = 52428801 =>
                upload'.body = "File too large. Maximum size is 50MB."
           /\ file.provided /\ file.type # "application/pdf" =>
                upload'.body = "Only PDF files are allowed"
           /\ valid /\ upload'.status = 200 =>
                /\ documents' # documents
                /\ storage' # storage]_vars

\* A PDF of exactly 52,428,800 bytes was accepted and stored, and the
\* following oversize request was rejected, leaving one blob and one row.
C17_Witness ==
  /\ upload = Response(400, "File too large. Maximum size is 50MB.")
  /\ Cardinality(storage) = 1
  /\ Cardinality({d \in DocIds : documents[d] # NoRow}) = 1


(***************************************************************************)
(* Query preprocessing: preprocessQuery and getSearchWeights of            *)
(* src/unnamed/part_004.  A query is a sequence of words separated by      *)
(* single spaces, a word a sequence of letters and digits: every pattern   *)
(* is anchored by \b on both sides, so a match is a whole word.  The       *)
(* optional prefixes "ASTM ", "API " and "NACE " of the patterns, which    *)
(* span two words, do not change whether a pattern matches.                *)
(***************************************************************************)
\* The most words of a query in the model.
MaxWords == 2

LowerLetters ==
  <<"a", "b", "c", "d", "e", "f", "g", "h", "i", "j", "k", "l", "m", "n", "o", "p", "q", "r", "s", "t", "u", "v", "w", "x", "y", "z">>

UpperLetters ==
  <<"A", "B", "C", "D", "E", "F", "G", "H", "I", "J", "K", "L", "M", "N", "O", "P", "Q", "R", "S", "T", "U", "V", "W", "X", "Y", "Z">>

\* toUpperCase of one character.
UpperChar(c) ==
  IF \E i \in 1..26 : LowerLetters[i] = c
  THEN UpperLetters[CHOOSE i \in 1..26 : LowerLetters[i] = c]
  ELSE c

toUpperCase(s) == [i \in 1..Len(s) |-> UpperChar(s[i])]

IsLetter(c) == \E i \in 1..26 : UpperLetters[i] = c

AllDigits(s) == \A i \in 1..Len(s) : s[i] \in DigitChars

\* UNS_PATTERN /\b[SNCGHJKWRT]\d{5}\b/gi on a word.
MatchesUns(word) ==
  LET w == toUpperCase(word) IN
  /\ Len(w) = 6
  /\ w[1] \in {"S", "N", "C", "G", "H", "J", "K", "W", "R", "T"}
  /\ AllDigits(Tail(w))

\* ASTM_A_PATTERN /\b(?:ASTM\s*)?A\d{3,4}(?:[/-]\d{2,4})?\b/gi on a word.
MatchesAstm(word) ==
  LET w == toUpperCase(word) IN
  /\ Len(w) \in {4, 5}
  /\ w[1] = "A"
  /\ AllDigits(Tail(w))

\* API_PATTERN /\b(?:API\s+)?\d{1,2}[A-Z]{0,2}(?:T|L|CT)?\b/gi on a word:
\* one or two digits, then at most two letters, then nothing, T, L or CT.
MatchesApi(word) ==
  LET w == toUpperCase(word) IN
  \E d \in {1, 2} : \E n \in 0..2 : \E suffix \in {<<>>, <<"T">>, <<"L">>, <<"C", "T">>} :
     /\ Len(w) = d + n + Len(suffix)
     /\ AllDigits(SubSeq(w, 1, d))
     /\ \A i \in (d + 1)..(d + n) : IsLetter(w[i])
     /\ SubSeq(w, d + n + 1, Len(w)) = suffix

Grades ==
  { <<"2", "2", "0", "5">>,
    <<"2", "5", "0", "7">>,
    <<"2", "3", "0", "4">>,
    <<"2", "1", "0", "1">>,
    <<"3", "1", "6">>,
    <<"3", "1", "6", "L">>,
    <<"3", "0", "4">>,
    <<"3", "0", "4", "L">>,
    <<"3", "1", "7">>,
    <<"3", "1", "7", "L">>,
    <<"3", "2", "1">>,
    <<"3", "4", "7">>,
    <<"4", "1", "0">>,
    <<"4", "2", "0">>,
    <<"4", "3", "0">>,
    <<"4", "4", "6">> }

\* GRADE_PATTERN on a word.
MatchesGrade(word) == toUpperCase(word) \in Grades

\* NACE_PATTERN /\b(?:NACE\s*)?MR\d{4}(?:\/ISO\s*\d+)?\b/gi and
\* ISO_15156_PATTERN /\bISO\s*15156(?:-\d+)?\b/gi on a word.
MatchesNace(word) ==
  LET w == toUpperCase(word) IN
  \/ Len(w) = 6 /\ SubSeq(w, 1, 2) = <<"M", "R">> /\ AllDigits(SubSeq(w, 3, 6))
  \/ w = <<"I", "S", "O", "1", "5", "1", "5", "6">>

PROPERTY_KEYWORDS ==
  { <<"y", "i", "e", "l", "d">>,
    <<"t", "e", "n", "s", "i", "l", "e">>,
    <<"e", "l", "o", "n", "g", "a", "t", "i", "o", "n">>,
    <<"h", "a", "r", "d", "n", "e", "s", "s">>,
    <<"h", "r", "c">>,
    <<"h", "b", "w">>,
    <<"h", "v", "n">>,
    <<"p", "r", "e", "n">>,
    <<"c", "h", "a", "r", "p", "y">>,
    <<"i", "m", "p", "a", "c", "t">>,
    <<"k", "s", "i">>,
    <<"m", "p", "a">>,
    <<"f", "e", "r", "r", "i", "t", "e">>,
    <<"a", "u", "s", "t", "e", "n", "i", "t", "e">>,
    <<"a", "n", "n", "e", "a", "l", "i", "n", "g">>,
    <<"s", "o", "l", "u", "t", "i", "o", "n">>,
    <<"q", "u", "e", "n", "c", "h">>,
    <<"t", "e", "m", "p", "e", "r">> }

\* original: the words joined by single spaces.
RECURSIVE JoinWords(_)
JoinWords(words) ==
  IF words = <<>> THEN <<>>
  ELSE IF Len(words) = 1 THEN words[1]
  ELSE words[1] \o <<" ">> \o JoinWords(Tail(words))

\* PROPERTY_KEYWORDS.some(k => upperQuery.includes(k.toUpperCase()))
hasPropertyKeywords(words) ==
  \E k \in PROPERTY_KEYWORDS :
     includes(toUpperCase(JoinWords(words)), toUpperCase(k))

\* Which of the five code types have a match in the query: the fields of
\* extractedCodes that are set.
ExtractedCodes(words) ==
  [uns |-> \E i \in 1..Len(words) : MatchesUns(words[i]),
   astm |-> \E i \in 1..Len(words) : MatchesAstm(words[i]),
   api |-> \E i \in 1..Len(words) : MatchesApi(words[i]),
   grade |-> \E i \in 1..Len(words) : MatchesGrade(words[i]),
   nace |-> \E i \in 1..Len(words) : MatchesNace(words[i])]

\* hasExactCodes: the UNS, ASTM, grade and NACE matches; apiMatches is not
\* among its terms.
hasExactCodes(codes) == codes.uns \/ codes.astm \/ codes.grade \/ codes.nace

\* preprocessQuery(query): extractedCodes and boostExactMatch.
PreprocessQuery ==
  /\ prep.pc = "called"
  /\ prep' = [prep EXCEPT
       !.pc = "processed",
       !.extractedCodes = ExtractedCodes(prep.query),
       !.boostExactMatch = hasExactCodes(ExtractedCodes(prep.query))
                             \/ hasPropertyKeywords(prep.query)]

\* [uns, astm, api, grade, nace].filter(Boolean).length
codeCount(codes) ==
  Cardinality({f \in {"uns", "astm", "api", "grade", "nace"} : codes[f]})

\* Mutant: a single code type no longer earns the even weighting.
getSearchWeights_BoostOnly(codes, boostExactMatch) ==
  IF codeCount(codes) >= 2 THEN [bm25Weight |-> 6, vectorWeight |-> 4]
  ELSE IF boostExactMatch THEN [bm25Weight |-> 5, vectorWeight |-> 5]
  ELSE [bm25Weight |-> 3, vectorWeight |-> 7]

\* getSearchWeights(query), the weights in tenths.
getSearchWeights(codes, boostExactMatch) ==
  IF codeCount(codes) >= 2 THEN [bm25Weight |-> 6, vectorWeight |-> 4]
  ELSE IF codeCount(codes) = 1 \/ boostExactMatch
       THEN [bm25Weight |-> 5, vectorWeight |-> 5]
  ELSE [bm25Weight |-> 3, vectorWeight |-> 7]

\* getSearchWeights is called on the processed query.
GetSearchWeights ==
  /\ prep.pc = "processed"
  /\ prep' = [prep EXCEPT
       !.pc = "weighted",
       !.bm25Weight = getSearchWeights(prep.extractedCodes,
                                       prep.boostExactMatch).bm25Weight,
       !.vectorWeight = getSearchWeights(prep.extractedCodes,
                                         prep.boostExactMatch).vectorWeight]

Vocabulary ==
  { <<"S", "3", "1", "8", "0", "3">>,
    <<"A", "7", "9", "0">>,
    <<"5", "C", "T">>,
    <<"1", "3">>,
    <<"2", "2", "0", "5">>,
    <<"3", "1", "6", "l">>,
    <<"M", "R", "0", "1", "7", "5">>,
    <<"I", "S", "O", "1", "5", "1", "5", "6">>,
    <<"y", "i", "e", "l", "d">>,
    <<"T", "e", "m", "p", "e", "r", "i", "n", "g">>,
    <<"p", "i", "p", "e">> }

PrepQueries == UNION {[1..n -> Vocabulary] : n \in 0..MaxWords}

\* The next query arrives.
NextQuery(query) ==
  /\ prep.pc \in {"idle", "weighted"}
  /\ prep' = [IdlePrep EXCEPT !.pc = "called", !.query = query]

PrepInit ==
  /\ env = {}
  /\ now = 0
  /\ client = NoClient
  /\ gen = IdleGen
  /\ rr = IdleRerank
  /\ DbInit
  /\ CachesEmpty
  /\ limiter = NoLimiter
  /\ chat = IdleChat
  /\ guard = IdleGuard
  /\ verif = IdleVerif
  /\ chunker = IdleChunker
  /\ prep = IdlePrep
  /\ hooks = IdleHooks
  /\ ui = IdleUi
  /\ dedup = IdleDedup
  /\ chunking = IdleChunking
  /\ narrative = IdleNarrative

PrepNext ==
  \/ \E query \in PrepQueries :
        NextQuery(query) /\ UNCHANGED <<env, now, llmVars, dbVars, cacheVars, notPrep>>
  \/ PreprocessQuery /\ UNCHANGED <<env, now, llmVars, dbVars, cacheVars, notPrep>>
  \/ GetSearchWeights /\ UNCHANGED <<env, now, llmVars, dbVars, cacheVars, notPrep>>

SpecPrep == PrepInit /\ [][PrepNext]_vars

\* C18: boostExactMatch is true exactly when the query matched one of the
\* five code types (UNS, ASTM, API, grade, NACE/ISO 15156) or contains a
\* property keyword.
C18_BoostWhenAnyCodeOrKeyword ==
  prep.pc \in {"processed", "weighted"} =>
    (prep.boostExactMatch <=>
       \/ prep.extractedCodes.uns
       \/ prep.extractedCodes.astm
       \/ prep.extractedCodes.api
       \/ prep.extractedCodes.grade
       \/ prep.extractedCodes.nace
       \/ hasPropertyKeywords(prep.query))

MaxTimers == 3

\* The most late events counted.
MaxLate == 2

\* What a scheduled callback does when it runs.
Callbacks == {"log", "setState"}

Bump(n) == IF n < MaxLate THEN n + 1 ELSE n

\* The component is committed: the three mount effects run.
Mount ==
  /\ ~hooks.mounted
  /\ hooks' = [hooks EXCEPT !.mounted = TRUE, !.rendered = TRUE,
                            !.stateMounted = TRUE, !.timeoutMounted = TRUE,
                            !.intervalMounted = TRUE]

\* clearTimeout / clearInterval of timer id (nothing for the null ref).
Cleared(timers, id) ==
  [t \in 1..Len(timers) |-> IF t = id THEN [timers[t] EXCEPT !.kind = "none"]
                            ELSE timers[t]]

\* The component unmounts: the three cleanups run, each marks its ref
\* unmounted, the timeout and interval cleanups clear the timer in their ref.
Unmount ==
  /\ hooks.mounted
  /\ hooks' = [hooks EXCEPT
       !.mounted = FALSE,
       !.stateMounted = FALSE, !.timeoutMounted = FALSE,
       !.intervalMounted = FALSE,
       !.timers = Cleared(Cleared(@, hooks.timeoutRef), hooks.intervalRef),
       !.timeoutRef = 0, !.intervalRef = 0]

\* Mutant: setSafeState without the mounted check.
setSafeState_Unguarded(h, value) ==
  [h EXCEPT !.state = value,
            !.lateUpdates = IF h.mounted THEN @ ELSE Bump(@)]

\* setSafeState(value): setState only while isMountedRef.current; a state
\* update applied with the component unmounted is counted in lateUpdates.
setSafeState(h, value) ==
  IF h.stateMounted
  THEN [h EXCEPT !.state = value,
                 !.lateUpdates = IF h.mounted THEN @ ELSE Bump(@)]
  ELSE [h EXCEPT !.suppressed = Bump(@)]

\* Some code holding the setter (a promise callback, an event handler) calls
\* it, before or after the unmount.
SetSafeState(value) ==
  /\ hooks.rendered
  /\ hooks' = setSafeState(hooks, value)

\* setSafeTimeout(callback, delay): the timer in the ref is cleared, a new
\* one is set and kept in the ref.
SetSafeTimeout(callback) ==
  /\ hooks.rendered
  /\ Len(hooks.timers) < MaxTimers
  /\ hooks' = [hooks EXCEPT
       !.timers = Append(Cleared(@, hooks.timeoutRef),
                         [kind |-> "timeout", callback |-> callback]),
       !.timeoutRef = Len(hooks.timers) + 1]

\* The scheduled callback runs: what it does to the component, a callback
\* run with the component unmounted being counted in lateCallbacks.
RunCallback(h, callback) ==
  LET ran == [h EXCEPT !.lateCallbacks = IF h.mounted THEN @ ELSE Bump(@)]
  IN IF callback = "setState" THEN setSafeState(ran, 1 - ran.state) ELSE ran

\* The timeout fires: the callback runs only while isMountedRef.current,
\* then the ref is set to null.
TimeoutFires(id) ==
  /\ id \in 1..Len(hooks.timers)
  /\ hooks.timers[id].kind = "timeout"
  /\ \A after \in {IF hooks.timeoutMounted
                   THEN RunCallback(hooks, hooks.timers[id].callback)
                   ELSE hooks} :
       hooks' = [after EXCEPT !.timers = Cleared(@, id), !.timeoutRef = 0]

\* clearSafeTimeout()
ClearSafeTimeout ==
  /\ hooks.rendered
  /\ hooks.timeoutRef # 0
  /\ hooks' = [hooks EXCEPT !.timers = Cleared(@, hooks.timeoutRef),
                            !.timeoutRef = 0]

\* setSafeInterval(callback, delay)
SetSafeInterval(callback) ==
  /\ hooks.rendered
  /\ Len(hooks.timers) < MaxTimers
  /\ hooks' = [hooks EXCEPT
       !.timers = Append(Cleared(@, hooks.intervalRef),
                         [kind |-> "interval", callback |-> callback]),
       !.intervalRef = Len(hooks.timers) + 1]

\* The interval ticks: the callback runs only while isMountedRef.current;
\* the interval stays set.
IntervalFires(id) ==
  /\ id \in 1..Len(hooks.timers)
  /\ hooks.timers[id].kind = "interval"
  /\ hooks' = IF hooks.intervalMounted
              THEN RunCallback(hooks, hooks.timers[id].callback)
              ELSE [hooks EXCEPT !.suppressed = Bump(@)]

\* clearSafeInterval()
ClearSafeInterval ==
  /\ hooks.rendered
  /\ hooks.intervalRef # 0
  /\ hooks' = [hooks EXCEPT !.timers = Cleared(@, hooks.intervalRef),
                            !.intervalRef = 0]

HooksInit ==
  /\ env = {}
  /\ now = 0
  /\ client = NoClient
  /\ gen = IdleGen
  /\ rr = IdleRerank
  /\ DbInit
  /\ CachesEmpty
  /\ limiter = NoLimiter
  /\ chat = IdleChat
  /\ guard = IdleGuard
  /\ verif = IdleVerif
  /\ chunker = IdleChunker
  /\ prep = IdlePrep
  /\ hooks = IdleHooks
  /\ ui = IdleUi
  /\ dedup = IdleDedup
  /\ chunking = IdleChunking
  /\ narrative = IdleNarrative

HooksNext ==
  \/ Mount /\ UNCHANGED <<env, now, llmVars, dbVars, cacheVars, notHooks>>
  \/ Unmount /\ UNCHANGED <<env, now, llmVars, dbVars, cacheVars, notHooks>>
  \/ \E value \in {0, 1} :
        SetSafeState(value) /\ UNCHANGED <<env, now, llmVars, dbVars, cacheVars, notHooks>>
  \/ \E callback \in Callbacks :
        SetSafeTimeout(callback) /\ UNCHANGED <<env, now, llmVars, dbVars, cacheVars, notHooks>>
  \/ \E id \in 1..MaxTimers :
        TimeoutFires(id) /\ UNCHANGED <<env, now, llmVars, dbVars, cacheVars, notHooks>>
  \/ ClearSafeTimeout /\ UNCHANGED <<env, now, llmVars, dbVars, cacheVars, notHooks>>
  \/ \E callback \in Callbacks :
        SetSafeInterval(callback) /\ UNCHANGED <<env, now, llmVars, dbVars, cacheVars, notHooks>>
  \/ \E id \in 1..MaxTimers :
        IntervalFires(id) /\ UNCHANGED <<env, now, llmVars, dbVars, cacheVars, notHooks>>
  \/ ClearSafeInterval /\ UNCHANGED <<env, now, llmVars, dbVars, cacheVars, notHooks>>

SpecHooks == HooksInit /\ [][HooksNext]_vars

\* C20: whatever the order of setter calls, timer scheduling and clearing,
\* timer firings and the unmount, no state update is applied and no scheduled
\* callback runs while the component is unmounted, and the component's state
\* does not change in any step taken while it is unmounted.
C20_NothingAfterUnmount ==
  /\ [](hooks.lateUpdates = 0 /\ hooks.lateCallbacks = 0)
  /\ [][~hooks.mounted /\ ~hooks'.mounted => hooks'.state = hooks.state]_vars

\* After the unmount, setter calls or interval ticks were suppressed while an
\* interval set after the unmount is still running.
C20_Witness ==
  /\ hooks.rendered
  /\ ~hooks.mounted
  /\ hooks.suppressed = MaxLate
  /\ \E id \in 1..Len(hooks.timers) : hooks.timers[id].kind = "interval"
  /\ hooks.lateUpdates = 0
  /\ hooks.lateCallbacks = 0

(***************************************************************************)
(* The document upload components: components/document-upload.tsx (one     *)
(* file) and the DocumentUpload of lib/embeddings.ts (a list of files).    *)
(***************************************************************************)

MaxUiRequests == 3

UiFileNames == {"a.pdf", "b.pdf"}

UiKinds == {"single", "multi"}

\* What a request's own progress would show: uploading until the upload
\* responds, processing until the process request responds, then complete
\* or error.
OwnStatus(request) ==
  CASE request.pc = "upload" -> "uploading"
    [] request.pc = "process" -> "processing"
    [] OTHER -> request.outcome

\* The state updaters of a request for the file called name.  The
\* single-file component updates whatever file is shown (prev ? {...prev,
\* status} : null); the list component updates every entry with that name.
SetStatus(u, name, status) ==
  [i \in 1..Len(u.files) |->
     IF u.kind = "single" \/ u.files[i].name = name
     THEN [u.files[i] EXCEPT !.status = status]
     ELSE u.files[i]]

\* The file input and the drop area of the single-file component are
\* rendered when no file is shown or the file shown has status error; the
\* replace input when it has status complete.  The list component always
\* renders its drop area.
CanChooseFile ==
  \/ ui.kind = "multi"
  \/ ui.files = <<>>
  \/ ui.files # <<>> /\ ui.files[1].status \in {"error", "complete"}

\* handleFile(newFile) / handleFiles([newFile]) up to the first await: the
\* entry is shown with status uploading and the upload request is sent.
HandleFile(name) ==
  /\ CanChooseFile
  /\ Len(ui.requests) < MaxUiRequests
  /\ LET entry == [name |-> name, status |-> "uploading",
                   owner |-> Len(ui.requests) + 1]
     IN ui' = [ui EXCEPT
                 !.files = IF ui.kind = "single" THEN <<entry>>
                           ELSE Append(ui.files, entry),
                 !.requests = Append(ui.requests,
                                [name |-> name, pc |-> "upload",
                                 outcome |-> "pending"])]

\* The upload request of call r responds: processing and the process request
\* when response.ok, the catch block otherwise.
UploadResponds(r, ok) ==
  /\ r \in 1..Len(ui.requests)
  /\ ui.requests[r].pc = "upload"
  /\ ui' = [ui EXCEPT
              !.files = SetStatus(ui, ui.requests[r].name,
                                  IF ok THEN "processing" ELSE "error"),
              !.requests[r] = IF ok THEN [@ EXCEPT !.pc = "process"]
                              ELSE [@ EXCEPT !.pc = "done", !.outcome = "error"]]

\* The process request of call r responds: complete when processResponse.ok,
\* the catch block otherwise.
ProcessResponds(r, ok) ==
  /\ r \in 1..Len(ui.requests)
  /\ ui.requests[r].pc = "process"
  /\ ui' = [ui EXCEPT
              !.files = SetStatus(ui, ui.requests[r].name,
                                  IF ok THEN "complete" ELSE "error"),
              !.requests[r] = [@ EXCEPT !.pc = "done",
                                 !.outcome = IF ok THEN "complete" ELSE "error"]]

\* removeFile: setFile(null) / the entries with that name are filtered out.
\* The button is rendered next to every entry, whatever its status.
RemoveFile(i) ==
  /\ i \in 1..Len(ui.files)
  /\ ui' = [ui EXCEPT
              !.files = IF ui.kind = "single" THEN <<>>
                        ELSE SelectSeq(ui.files,
                               LAMBDA f : f.name # ui.files[i].name)]

UiInit ==
  /\ env = {}
  /\ now = 0
  /\ client = NoClient
  /\ gen = IdleGen
  /\ rr = IdleRerank
  /\ DbInit
  /\ CachesEmpty
  /\ limiter = NoLimiter
  /\ chat = IdleChat
  /\ guard = IdleGuard
  /\ verif = IdleVerif
  /\ chunker = IdleChunker
  /\ prep = IdlePrep
  /\ hooks = IdleHooks
  /\ \E kind \in UiKinds : ui = [IdleUi EXCEPT !.kind = kind]
  /\ dedup = IdleDedup
  /\ chunking = IdleChunking
  /\ narrative = IdleNarrative

UiNext ==
  \/ \E name \in UiFileNames :
        HandleFile(name) /\ UNCHANGED <<env, now, llmVars, dbVars, cacheVars, notUi>>
  \/ \E r \in 1..MaxUiRequests, ok \in BOOLEAN :
        UploadResponds(r, ok) /\ UNCHANGED <<env, now, llmVars, dbVars, cacheVars, notUi>>
  \/ \E r \in 1..MaxUiRequests, ok \in BOOLEAN :
        ProcessResponds(r, ok) /\ UNCHANGED <<env, now, llmVars, dbVars, cacheVars, notUi>>
  \/ \E i \in 1..MaxUiRequests :
        RemoveFile(i) /\ UNCHANGED <<env, now, llmVars, dbVars, cacheVars, notUi>>

SpecUi == UiInit /\ [][UiNext]_vars

\* C21: in both upload components the status shown for a file is the
\* progress of that file's own upload and process requests (uploading, then
\* processing, then complete or error); a request started for a file that
\* was removed or replaced, or for another file of the same name, never
\* changes it, and complete is shown only after that file's own process
\* request succeeded.  It fails: a file removed while uploading and
\* replaced by another gets the statuses of the first file's requests.
C21_StatusFollowsOwnRequest ==
  \A i \in 1..Len(ui.files) :
     ui.files[i].status = OwnStatus(ui.requests[ui.files[i].owner])

(***************************************************************************)
(* scripts/dedup-documents.ts                                              *)
(***************************************************************************)

\* Rows of the documents table, creation times and chunks per document in
\* the tables the script is run on.
MaxDedupDocs == 3

MaxCreated == 1

MaxDedupChunks == 1

DedupFileNames == { <<"a">>, <<"A", " ">>, <<"a", "_">> }

\* normalizeFilename: filename.trim().toLowerCase()
normalizeFilename(filename) == toLowerCase(trim(filename))

\* The rows of the documents table in id order (.order("id")), each with
\* chunk_count not yet read.
FetchedDocs ==
  LET ids == SelectSeq([i \in 1..Len(documents) |-> i],
                       LAMBDA d : documents[d].status # "none")
  IN [k \in 1..Len(ids) |->
        [id |-> ids[k], filename |-> documents[ids[k]].filename,
         storage_path |-> documents[ids[k]].storage_path,
         created_at |-> documents[ids[k]].created_at, chunk_count |-> 0]]

\* Mutant: the copies are ordered by creation time only.
CompareCopies_ByDateOnly(a, b) == b.created_at - a.created_at

\* The comparator of copies.sort: more chunks first, then more recent first.
CompareCopies(a, b) ==
  IF b.chunk_count # a.chunk_count
  THEN b.chunk_count - a.chunk_count
  ELSE b.created_at - a.created_at

\* copies.sort(comparator); Array.prototype.sort is stable.
SortedCopies(copies) ==
  LET Precedes(i, j) ==
        \/ CompareCopies(copies[i], copies[j]) < 0
        \/ CompareCopies(copies[i], copies[j]) = 0 /\ i < j
      rank == [i \in 1..Len(copies) |->
                 1 + Cardinality({j \in 1..Len(copies) : Precedes(j, i)})]
  IN [k \in 1..Len(copies) |->
        copies[CHOOSE i \in 1..Len(copies) : rank[i] = k]]

\* The keys of the groups Map, in insertion order.
GroupKeys(docs) ==
  LET first == SelectSeq([i \in 1..Len(docs) |-> i],
                 LAMBDA i : \A j \in 1..(i - 1) :
                    normalizeFilename(docs[j].filename)
                      # normalizeFilename(docs[i].filename))
  IN [k \in 1..Len(first) |-> normalizeFilename(docs[first[k]].filename)]

\* Step 4 from group g on: the first of each sorted group is kept, the
\* rest are to be deleted.
RECURSIVE Plan(_, _, _)
Plan(docs, keys, g) ==
  IF g > Len(keys) THEN [toKeep |-> <<>>, toDelete |-> <<>>]
  ELSE CHOOSE plan \in
         {[toKeep |-> <<sorted[1]>> \o rest.toKeep,
           toDelete |-> Tail(sorted) \o rest.toDelete] :
            sorted \in {SortedCopies(SelectSeq(docs,
                          LAMBDA d : normalizeFilename(d.filename) = keys[g]))},
            rest \in {Plan(docs, keys, g + 1)}} : TRUE

\* The run once every chunk count is read: the plan is made and printed; the
\* run ends when there is nothing to delete or it is a dry run.
AfterCounts(run) ==
  LET plan == Plan(run.docs, GroupKeys(run.docs), 1) IN
  [run EXCEPT !.toKeep = plan.toKeep, !.toDelete = plan.toDelete, !.next = 1,
              !.pc = IF plan.toDelete = <<>> \/ run.dryRun
                     THEN "done" ELSE "deleteChunks"]

\* main up to the end of the documents query.
DedupStart(apply, fetchOk) ==
  /\ dedup.pc = "idle"
  /\ LET run == [IdleDedup EXCEPT
                   !.dryRun = ~apply,
                   !.before = [documents |-> documents, chunkRows |-> chunkRows,
                               storage |-> storage]]
     IN dedup' = IF ~fetchOk
                 THEN [run EXCEPT !.pc = "done", !.readFailures = 1]
                 ELSE IF FetchedDocs = <<>>
                 THEN AfterCounts(run)
                 ELSE [run EXCEPT !.pc = "count", !.docs = FetchedDocs]
  /\ UNCHANGED <<documents, storage, chunkRows>>

\* One chunk count query: chunk_count = count || 0, count being null when
\* the query fails.
DedupCount(countOk) ==
  /\ dedup.pc = "count"
  /\ LET id == dedup.docs[dedup.next].id
         run == [dedup EXCEPT
                   !.docs[dedup.next].chunk_count =
                      IF countOk THEN chunkRows[id] ELSE 0,
                   !.readFailures = IF countOk THEN @ ELSE @ + 1]
     IN dedup' = IF dedup.next = Len(dedup.docs)
                 THEN AfterCounts(run)
                 ELSE [run EXCEPT !.next = @ + 1]
  /\ UNCHANGED <<documents, storage, chunkRows>>

\* The deletion loop goes on to the next duplicate, or the run ends.
NextDuplicate(run) ==
  IF run.next = Len(run.toDelete)
  THEN [run EXCEPT !.pc = "done"]
  ELSE [run EXCEPT !.pc = "deleteChunks", !.next = @ + 1]

\* from("chunks").delete().eq("document_id", doc.id)
DedupDeleteChunks(ok) ==
  /\ dedup.pc = "deleteChunks"
  /\ IF ok
     THEN /\ chunkRows' = [chunkRows EXCEPT ![dedup.toDelete[dedup.next].id] = 0]
          /\ dedup' = [dedup EXCEPT !.pc = "deleteDocument"]
     ELSE /\ chunkRows' = chunkRows
          /\ dedup' = NextDuplicate([dedup EXCEPT !.deleteFailures = @ + 1])
  /\ UNCHANGED <<documents, storage>>

\* Mutant: the loop goes on to the blob when the record deletion failed.
DedupDeleteDocument_NoContinue(ok) ==
  /\ dedup.pc = "deleteDocument"
  /\ documents' = IF ok THEN [documents EXCEPT ![dedup.toDelete[dedup.next].id] = NoRow]
                  ELSE documents
  /\ dedup' = [dedup EXCEPT !.pc = "removeBlob",
                            !.deleteFailures = IF ok THEN @ ELSE @ + 1]
  /\ UNCHANGED <<storage, chunkRows>>

\* from("documents").delete().eq("id", doc.id)
DedupDeleteDocument(ok) ==
  /\ dedup.pc = "deleteDocument"
  /\ IF ok
     THEN /\ documents' = [documents EXCEPT ![dedup.toDelete[dedup.next].id] = NoRow]
          /\ dedup' = [dedup EXCEPT !.pc = "removeBlob"]
     ELSE /\ documents' = documents
          /\ dedup' = NextDuplicate([dedup EXCEPT !.deleteFailures = @ + 1])
  /\ UNCHANGED <<storage, chunkRows>>

\* storage.from("documents").remove([doc.storage_path]); an error is only
\* printed.
DedupRemoveBlob(ok) ==
  /\ dedup.pc = "removeBlob"
  /\ storage' = IF ok THEN storage \ {dedup.toDelete[dedup.next].storage_path}
                ELSE storage
  /\ dedup' = NextDuplicate([dedup EXCEPT
                               !.deleteFailures = IF ok THEN @ ELSE @ + 1])
  /\ UNCHANGED <<documents, chunkRows>>

\* The tables the script is run on: every row was inserted by the Upload
\* API (its blob is stored under its own path), and indexed rows have chunks.
DedupRows ==
  {NoRow} \cup
  {[status |-> "pending", filename |-> f, storage_path |-> StoragePath(t, f),
    created_at |-> t] : f \in DedupFileNames, t \in 0..MaxCreated}

DedupInit ==
  /\ env = {}
  /\ now = MaxCreated
  /\ client = NoClient
  /\ gen = IdleGen
  /\ rr = IdleRerank
  /\ CachesEmpty
  /\ limiter = NoLimiter
  /\ chat = IdleChat
  /\ guard = IdleGuard
  /\ verif = IdleVerif
  /\ chunker = IdleChunker
  /\ prep = IdlePrep
  /\ hooks = IdleHooks
  /\ ui = IdleUi
  /\ dedup = IdleDedup
  /\ upload = NoResponse
  /\ proc = [r \in Requests |-> IdleProcess]
  /\ started = 0
  /\ \E rows \in [1..MaxDedupDocs -> DedupRows],
        counts \in [1..MaxDedupDocs -> 0..MaxDedupChunks] :
        /\ \A d, e \in 1..MaxDedupDocs :
              d # e /\ rows[d] # NoRow => rows[d].storage_path # rows[e].storage_path
        /\ \A d \in 1..MaxDedupDocs : rows[d] = NoRow => counts[d] = 0
        /\ documents = [d \in 1..MaxDedupDocs |->
                          IF counts[d] > 0
                          THEN [rows[d] EXCEPT !.status = "indexed"] ELSE rows[d]]
        /\ chunkRows = counts
        /\ storage = {rows[d].storage_path :
                        d \in {e \in 1..MaxDedupDocs : rows[e] # NoRow}}
  /\ chunking = IdleChunking
  /\ narrative = IdleNarrative

DedupNext ==
  \/ \E apply \in BOOLEAN, fetchOk \in BOOLEAN :
        DedupStart(apply, fetchOk)
        /\ UNCHANGED <<env, now, llmVars, cacheVars, notDedup, upload, proc, started>>
  \/ \E countOk \in BOOLEAN :
        DedupCount(countOk)
        /\ UNCHANGED <<env, now, llmVars, cacheVars, notDedup, upload, proc, started>>
  \/ \E ok \in BOOLEAN :
        DedupDeleteChunks(ok)
        /\ UNCHANGED <<env, now, llmVars, cacheVars, notDedup, upload, proc, started>>
  \/ \E ok \in BOOLEAN :
        DedupDeleteDocument(ok)
        /\ UNCHANGED <<env, now, llmVars, cacheVars, notDedup, upload, proc, started>>
  \/ \E ok \in BOOLEAN :
        DedupRemoveBlob(ok)
        /\ UNCHANGED <<env, now, llmVars, cacheVars, notDedup, upload, proc, started>>

SpecDedup == DedupInit /\ [][DedupNext]_vars

\* The ids of the rows of table docs with normalized filename key.
CopiesOf(docs, key) ==
  {d \in DOMAIN docs :
     docs[d].status # "none" /\ normalizeFilename(docs[d].filename) = key}

\* Copy d had the most chunks of its group when the run started and, among
\* those with as many, the most recent creation time.
BestCopy(d) ==
  LET was == dedup.before
      key == normalizeFilename(was.documents[d].filename)
  IN \A e \in CopiesOf(was.documents, key) :
        \/ was.chunkRows[d] > was.chunkRows[e]
        \/ /\ was.chunkRows[d] = was.chunkRows[e]
           /\ was.documents[d].created_at >= was.documents[e].created_at

\* What a finished run leaves: per normalized filename one document, the
\* best copy, untouched; the other copies gone with their chunks and blobs.
OneBestCopyRemains ==
  LET was == dedup.before IN
  \A d \in DOMAIN was.documents :
     was.documents[d].status # "none" =>
       LET key == normalizeFilename(was.documents[d].filename) IN
       /\ Cardinality(CopiesOf(documents, key)) = 1
       /\ \A k \in CopiesOf(documents, key) :
             /\ BestCopy(k)
             /\ documents[k] = was.documents[k]
             /\ chunkRows[k] = was.chunkRows[k]
             /\ documents[k].storage_path \in storage
       /\ d \notin CopiesOf(documents, key) =>
             /\ chunkRows[d] = 0
             /\ was.documents[d].storage_path \notin storage

NothingDeleted ==
  /\ documents = dedup.before.documents
  /\ chunkRows = dedup.before.chunkRows
  /\ storage = dedup.before.storage

MaxWindows == 3

\* The default parameters of chunkText.
ProcessChunkSize == 1000

ProcessOverlap == 200

RECURSIVE TextLength(_)
TextLength(text) ==
  IF text = <<>> THEN 0 ELSE Head(text)[2] + TextLength(Tail(text))

\* The positions (from 1) of the characters of text that are not whitespace.
RECURSIVE NonSpace(_, _)
NonSpace(text, offset) ==
  IF text = <<>> THEN {}
  ELSE (IF Head(text)[1] = "char"
        THEN (offset + 1)..(offset + Head(text)[2]) ELSE {})
       \cup NonSpace(Tail(text), offset + Head(text)[2])

\* text.slice(start, end).trim().length
TrimmedLength(text, start, end) ==
  LET inside == NonSpace(text, 0) \cap ((start + 1)..end) IN
  IF inside = {} THEN 0
  ELSE (CHOOSE i \in inside : \A j \in inside : j <= i)
         - (CHOOSE i \in inside : \A j \in inside : i <= j) + 1

\* The filter of the return statement: chunk.trim().length > 50
KeepsChunk(text, window) ==
  TrimmedLength(text, window[1], window[2]) > 50

\* return chunks.filter(...)
ChunkTextReturns(c) ==
  [c EXCEPT !.pc = "returned",
            !.chunks = SelectSeq(c.windows, LAMBDA w : KeepsChunk(c.text, w))]

\* chunkText(text) up to the loop test.
ChunkText(text) ==
  /\ chunking.pc = "idle"
  /\ chunking' =
       IF 0 < TextLength(text)
       THEN [IdleChunking EXCEPT !.pc = "loop", !.text = text]
       ELSE ChunkTextReturns([IdleChunking EXCEPT !.text = text])

\* One iteration of the while loop, with the loop test or the break and the
\* return that follow it.
ChunkTextStep ==
  /\ chunking.pc = "loop"
  /\ LET length == TextLength(chunking.text)
         end == Min(chunking.start + ProcessChunkSize, length)
         next == Max(end - ProcessOverlap, 0)
         pushed == [chunking EXCEPT
                      !.windows = Append(@, <<chunking.start, end>>),
                      !.start = next]
     IN chunking' = IF end = length \/ ~(next < length)
                    THEN ChunkTextReturns(pushed)
                    ELSE pushed

\* The Process API goes on with the chunks.
ChunkTextDone ==
  /\ chunking.pc = "returned"
  /\ chunking' = IdleChunking

\* Texts: optional whitespace, a body, whitespace, a tail.
ChunkTexts ==
  {SelectSeq(<<<<"space", lead>>, <<"char", body>>, <<"space", gap>>,
               <<"char", tail>>>>, LAMBDA run : run[2] > 0) :
     lead \in {0, 1},
     body \in {0, 49, 50, 51, 799, 1000, 1001, 1650},
     gap \in {0, 1, ProcessOverlap},
     tail \in {0, 49, 50, 51}}

ChunkingInit ==
  /\ env = {}
  /\ now = 0
  /\ client = NoClient
  /\ gen = IdleGen
  /\ rr = IdleRerank
  /\ DbInit
  /\ CachesEmpty
  /\ limiter = NoLimiter
  /\ chat = IdleChat
  /\ guard = IdleGuard
  /\ verif = IdleVerif
  /\ chunker = IdleChunker
  /\ prep = IdlePrep
  /\ hooks = IdleHooks
  /\ ui = IdleUi
  /\ dedup = IdleDedup
  /\ chunking = IdleChunking
  /\ narrative = IdleNarrative

ChunkingNext ==
  \/ \E text \in ChunkTexts :
        ChunkText(text) /\ UNCHANGED <<env, now, llmVars, dbVars, cacheVars, notChunking>>
  \/ ChunkTextStep /\ UNCHANGED <<env, now, llmVars, dbVars, cacheVars, notChunking>>
  \/ ChunkTextDone /\ UNCHANGED <<env, now, llmVars, dbVars, cacheVars, notChunking>>

SpecChunking == ChunkingInit /\ [][ChunkingNext]_vars

\* The windows of a text of the given length: 1000 characters starting
\* every 800, the last one ending at the end of the text.
ExpectedWindows(length) ==
  IF length = 0 THEN <<>>
  ELSE LET n == CHOOSE k \in 1..(MaxWindows + 1) :
                  /\ 800 * (k - 1) + 1000 >= length
                  /\ \A j \in 1..(k - 1) : 800 * (j - 1) + 1000 < length
       IN [k \in 1..n |-> <<800 * (k - 1), Min(800 * (k - 1) + 1000, length)>>]

\* C23: chunkText produces windows of 1000 characters starting every 800
\* characters with a final partial window ending at the end of the text, and
\* discards exactly the windows whose trimmed length is under 50 characters:
\* a window of trimmed length 50 or more is kept.  It fails for a window of
\* trimmed length exactly 50, which is discarded.
C23_WindowsKeptFrom50 ==
  chunking.pc = "returned" =>
    /\ chunking.windows = ExpectedWindows(TextLength(chunking.text))
    /\ chunking.chunks =
         SelectSeq(chunking.windows,
                   LAMBDA w : TrimmedLength(chunking.text, w[1], w[2]) >= 50)

(***************************************************************************)
(* Concurrent Process API requests for one document.                       *)
(***************************************************************************)
\* C25: the Process API takes no lock and makes no status check before
\* starting: a request for an existing document goes on whatever the
\* document's status, sets it to processing, and its insert adds its own full
\* set of chunks to those already stored, so two concurrent requests for one
\* document can leave it indexed with every chunk stored twice.
C25_NoLockNoStatusCheck ==
  [][\A r \in Requests :
       LET d == proc[r].documentId IN
       /\ (proc[r].pc = "select" /\ proc'[r].pc # "select"
              /\ documents[d].status # "none") => proc'[r].pc = "mark"
       /\ (proc[r].pc = "mark" /\ proc'[r].pc = "download"
              /\ documents[d].status # "none") => documents'[d].status = "processing"
       /\ (proc[r].pc = "store" /\ proc'[r].pc = "mark_indexed")
              => chunkRows'[d] = chunkRows[d] + proc[r].chunks]_vars

\* Two overlapping requests for one document have both stored their chunks.
C25_Witness ==
  /\ proc[1].documentId = proc[2].documentId
  /\ proc[1].pc = "done"
  /\ proc[1].response.status = 200
  /\ proc[2].pc = "mark_indexed"
  /\ documents[proc[1].documentId].status = "indexed"
  /\ chunkRows[proc[1].documentId] = 2 * MaxDocChunks

(***************************************************************************)
(* Overlapping getCachedQueryEmbedding calls for one query.                *)
(***************************************************************************)
\* Another call is waiting for the embedding of call c's key.
KeyInFlight(c) ==
  \E o \in Calls \ {c} :
     ecalls[o].pc = "awaiting" /\ ecalls[o].key = ecalls'[c].key

\* The cache holds no entry less than 1 hour old for call c's key.
Uncached(c) ==
  \A i \in 1..Len(ecache) :
     ecache[i].key = ecalls'[c].key =>
        now - ecache[i].timestamp >= 60 * 60 * 1000

\* C27: the embedding cache performs no in-flight de-duplication: a
\* getCachedQueryEmbedding call for an uncached query that starts while
\* another call for the same normalized query is waiting for its embedding
\* calls the Embedding Client itself, and each time one of them resolves the
\* cache holds a single entry for that key, containing the result of the
\* call that resolved last.
C27_NoInFlightDeduplication ==
  [][\A c \in Calls :
       /\ (CallStarts(c) /\ KeyInFlight(c) /\ Uncached(c)) =>
             /\ ecalls'[c].pc = "awaiting"
             /\ ecalls'[c].calledClient
       /\ CallStores(c) =>
             \A held \in {SelectSeq(ecache', LAMBDA e : e.key = ecalls[c].key)} :
                /\ Len(held) = 1
                /\ held[1].embedding = ecalls'[c].result
                /\ held[1].timestamp = now]_vars

\* Two calls for the same key spelled differently, both sent to the
\* Embedding Client at the same time; the entry holds the second result.
C27_Witness ==
  /\ ticks = 0
  /\ \A c \in Calls : ecalls[c].pc = "done" /\ ecalls[c].calledClient
  /\ ecalls[1].key = ecalls[2].key
  /\ ecalls[1].query # ecalls[2].query
  /\ ecalls[1].result = "v1"
  /\ ecalls[2].result = "v2"
  /\ \E i \in 1..Len(ecache) :
        ecache[i].key = ecalls[1].key /\ ecache[i].embedding = "v2"
  /\ Cardinality({i \in 1..Len(ecache) : ecache[i].key = ecalls[1].key}) = 1

(***************************************************************************)
(* verifyClaims followed by applyGuardrails (src/unnamed/part_002).        *)
(***************************************************************************)
\* Claims are pushed in runs of equal results; a response has at most
\* MaxRuns runs.
MaxRuns == 3

RunLengths == {1, 30}

\* The results verifyClaimAgainstSource can give: numbers is
\* claim_numbers.length and numeric tells whether it is above 0.  A verified
\* claim has its numbers verified; a claim without numbers fails on its quote
\* (numbers_verified true) or on a missing source (false).
VerifiedClaimResults ==
  {c \in [verified : BOOLEAN, numbers : 0..2, numbers_verified : BOOLEAN,
          numeric : BOOLEAN] :
     /\ c.numeric = (c.numbers > 0)
     /\ c.verified => c.numbers_verified}

RECURSIVE VerifiedNumbers(_, _)
VerifiedNumbers(claims, i) ==
  IF i > Len(claims) THEN 0
  ELSE (IF claims[i].numbers_verified THEN claims[i].numbers ELSE 0)
         + VerifiedNumbers(claims, i + 1)

RECURSIVE TotalNumbers(_, _)
TotalNumbers(claims, i) ==
  IF i > Len(claims) THEN 0
  ELSE claims[i].numbers + TotalNumbers(claims, i + 1)

\* confidence = verificationRate * 0.6 + numberVerificationRate * 0.4 as the
\* fraction <<numerator, denominator>>, each rate being 100 when there is
\* nothing to rate.  The doubles of the code give another side of 70 or
\* 69.5 than this fraction only when a claim with numbers failed, where
\* passed is false and the action is never return.
ConfidenceFraction(claims) ==
  LET verified == Cardinality({i \in 1..Len(claims) : claims[i].verified})
      totalNumbers == TotalNumbers(claims, 1)
      verifiedNumbers == VerifiedNumbers(claims, 1)
      rate == IF Len(claims) > 0 THEN <<100 * verified, Len(claims)>> ELSE <<100, 1>>
      numberRate == IF totalNumbers > 0 THEN <<100 * verifiedNumbers, totalNumbers>>
                    ELSE <<100, 1>>
  IN <<6 * rate[1] * numberRate[2] + 4 * numberRate[1] * rate[2],
       10 * rate[2] * numberRate[2]>>

\* Mutant: the confidence is rounded down.
verifyClaims_RoundsDown(claims) ==
  LET c == ConfidenceFraction(claims) IN
  [passed |-> c[1] >= 70 * c[2] /\ numericalFailures(claims) = 0,
   confidence |-> c[1] \div c[2]]

\* verifyClaims, as far as applyGuardrails and the caller read its result:
\* passed from the unrounded confidence, confidence: Math.round(confidence).
verifyClaims(claims) ==
  LET c == ConfidenceFraction(claims) IN
  [passed |-> c[1] >= 70 * c[2] /\ numericalFailures(claims) = 0,
   confidence |-> (2 * c[1] + c[2]) \div (2 * c[2])]

\* The loop of verifyClaims over a run of n claims with result c.
PushClaimResults(c, n) ==
  /\ guard.pc = "idle"
  /\ guard.runs < MaxRuns
  /\ guard' = [guard EXCEPT !.claims = @ \o [i \in 1..n |-> c],
                            !.runs = @ + 1]

\* verifyClaims returns.
VerifyClaims ==
  /\ guard.pc = "idle"
  /\ \A result \in {verifyClaims(guard.claims)} :
        guard' = [guard EXCEPT !.pc = "verified", !.passed = result.passed,
                               !.confidence = result.confidence]

\* applyGuardrails is called with the verification result and the response.
GuardVerified(source_type) ==
  /\ guard.pc = "verified"
  /\ guard' = [guard EXCEPT !.pc = "done", !.source_type = source_type,
                 !.action = applyGuardrails(guard.claims, source_type,
                                            guard.confidence)]

NextVerifiedResponse ==
  /\ guard.pc = "done"
  /\ guard' = IdleGuard

VerifyGuardInit ==
  /\ env = {}
  /\ now = 0
  /\ client = NoClient
  /\ gen = IdleGen
  /\ rr = IdleRerank
  /\ DbInit
  /\ CachesEmpty
  /\ AppIdle

VerifyGuardNext ==
  \/ \E c \in VerifiedClaimResults, n \in RunLengths :
        PushClaimResults(c, n)
        /\ UNCHANGED <<env, now, llmVars, dbVars, cacheVars, notGuard>>
  \/ VerifyClaims /\ UNCHANGED <<env, now, llmVars, dbVars, cacheVars, notGuard>>
  \/ \E source_type \in SourceTypes :
        GuardVerified(source_type)
        /\ UNCHANGED <<env, now, llmVars, dbVars, cacheVars, notGuard>>
  \/ NextVerifiedResponse /\ UNCHANGED <<env, now, llmVars, dbVars, cacheVars, notGuard>>

SpecVerifyGuard == VerifyGuardInit /\ [][VerifyGuardNext]_vars

\* C28 as stated: applyGuardrails returns action return if and only if the
\* verifyClaims result it is given has passed = true.  It fails for a
\* response without claims and source_type documents (passed, refused) and
\* for an unrounded confidence from 69.5 up to 70 (not passed, returned).
C28_ReturnIffPassed ==
  guard.pc = "done" => (guard.action = "return" <=> guard.passed)

\* C28, amended: applyGuardrails returns action return if and only if the
\* verifyClaims result has passed = true, with two exceptions: a response
\* without claims and with source_type documents has passed = true and is
\* refused, and a result without failed numeric claims whose unrounded
\* confidence is at least 69.5 and below 70 has passed = false and is
\* returned.
C28_ReturnIffPassedButTwoCases ==
  guard.pc = "done" =>
    \A c \in {ConfidenceFraction(guard.claims)} :
      LET noClaims == Len(guard.claims) = 0 /\ guard.source_type = "documents"
          roundsUp == /\ 2 * c[1] >= 139 * c[2]
                      /\ c[1] < 70 * c[2]
                      /\ numericalFailures(guard.claims) = 0
      IN /\ noClaims => guard.passed /\ guard.action = "refuse"
         /\ roundsUp => ~guard.passed /\ guard.action = "return"
         /\ ~noClaims /\ ~roundsUp =>
               (guard.action = "return" <=> guard.passed)

\* 30 of 61 claims verified, none with numbers: confidence 69.508.
C28_Witness ==
  /\ guard.pc = "done"
  /\ Len(guard.claims) = 61
  /\ Cardinality({i \in 1..61 : guard.claims[i].verified}) = 30
  /\ ~guard.passed
  /\ guard.confidence = 70
  /\ guard.action = "return"

(***************************************************************************)
(* chunkNarrativeText as createStructuredChunks calls it, with the         *)
(* caller's options (src/lib/document-intelligence.ts).                    *)
(***************************************************************************)
MaxSectionLength == 4

MaxChunkSize == 2

MaxOverlap == 3

\* chunks records the first MaxNarrativeChunks pushes of a call; start is
\* followed down to -MaxBack, below which every slice is empty.
MaxNarrativeChunks == 6

MaxBack == 8

SectionTexts ==
  UNION {[1..n -> {"x", " "}] : n \in 0..MaxSectionLength}

\* String.prototype.slice on a text of the given length: <<from, to>> with
\* negative indices counted from the end, from = to for an empty slice.
SliceBounds(length, start, end) ==
  LET from == IF start < 0 THEN (IF length + start < 0 THEN 0 ELSE length + start)
              ELSE (IF start > length THEN length ELSE start)
      to == IF end < 0 THEN (IF length + end < 0 THEN 0 ELSE length + end)
            ELSE (IF end > length THEN length ELSE end)
  IN IF from >= to THEN <<from, from>> ELSE <<from, to>>

\* slice(start, end).trim(): the bounds of the slice without its leading and
\* trailing whitespace.
TrimmedSlice(text, start, end) ==
  LET s == SliceBounds(Len(text), start, end)
      inked == {i \in (s[1] + 1)..s[2] : text[i] # " "}
  IN IF inked = {} THEN <<s[1], s[1]>>
     ELSE <<(CHOOSE i \in inked : \A j \in inked : i <= j) - 1,
            CHOOSE i \in inked : \A j \in inked : i >= j>>

\* createStructuredChunks calls chunkNarrativeText(section.content, chunkSize,
\* overlap); a text of at most chunkSize characters is returned trimmed.
ChunkNarrativeText(text, size, lap) ==
  /\ narrative.pc = "idle"
  /\ \A chunk \in {TrimmedSlice(text, 0, Len(text))} :
       narrative' =
         IF Len(text) <= size
         THEN [pc |-> "done", text |-> text, chunkSize |-> size, overlap |-> lap,
               start |-> 0, iterations |-> 0,
               chunks |-> IF chunk[1] < chunk[2] THEN <<chunk>> ELSE <<>>]
         ELSE [pc |-> "looping", text |-> text, chunkSize |-> size,
               overlap |-> lap, start |-> 0, iterations |-> 0, chunks |-> <<>>]

\* One iteration of while (start < text.length).
NarrativeStep ==
  /\ narrative.pc = "looping"
  /\ narrative.start < Len(narrative.text)
  /\ LET end == IF narrative.start + narrative.chunkSize < Len(narrative.text)
                THEN narrative.start + narrative.chunkSize
                ELSE Len(narrative.text)
     IN \A chunk \in {TrimmedSlice(narrative.text, narrative.start, end)} :
          narrative' =
            [narrative EXCEPT
               !.chunks = IF chunk[1] < chunk[2] /\ Len(@) < MaxNarrativeChunks
                          THEN Append(@, chunk) ELSE @,
               !.start = IF @ + (narrative.chunkSize - narrative.overlap) < -MaxBack
                         THEN -MaxBack
                         ELSE @ + (narrative.chunkSize - narrative.overlap),
               !.iterations = (@ + 1) % 2]

\* The loop ends and the chunks are returned.
NarrativeReturns ==
  /\ narrative.pc = "looping"
  /\ narrative.start >= Len(narrative.text)
  /\ narrative' = [narrative EXCEPT !.pc = "done"]

NextSection ==
  /\ narrative.pc = "done"
  /\ narrative' = IdleNarrative

NarrativeInit ==
  /\ env = {}
  /\ now = 0
  /\ client = NoClient
  /\ gen = IdleGen
  /\ rr = IdleRerank
  /\ DbInit
  /\ CachesEmpty
  /\ AppIdle

NarrativeNext ==
  \/ \E text \in SectionTexts, size \in 1..MaxChunkSize, lap \in 0..MaxOverlap :
        ChunkNarrativeText(text, size, lap)
        /\ UNCHANGED <<env, now, llmVars, dbVars, cacheVars, notNarrative>>
  \/ NarrativeStep /\ UNCHANGED <<env, now, llmVars, dbVars, cacheVars, notNarrative>>
  \/ NarrativeReturns /\ UNCHANGED <<env, now, llmVars, dbVars, cacheVars, notNarrative>>
  \/ NextSection /\ UNCHANGED <<env, now, llmVars, dbVars, cacheVars, notNarrative>>

\* The loop runs whenever it can: the call is synchronous.
SpecNarrative ==
  NarrativeInit /\ [][NarrativeNext]_vars /\ WF_vars(NarrativeNext)

\* Every non-whitespace character of the section is in a returned chunk.
SectionCovered ==
  \A i \in 1..Len(narrative.text) :
    narrative.text[i] # " " =>
      \E k \in 1..Len(narrative.chunks) :
        narrative.chunks[k][1] < i /\ i <= narrative.chunks[k][2]

\* C29: createStructuredChunks terminates for every text and every
\* chunkSize and overlap, overlap >= chunkSize included, and the narrative
\* windows of a section cover every non-whitespace character of it.  The
\* loop of chunkNarrativeText does not end when overlap >= chunkSize and the
\* section is longer than chunkSize.
C29_TerminatesAndCovers ==
  /\ narrative.pc = "looping" ~> narrative.pc = "done"
  /\ [](narrative.pc = "done" => SectionCovered)

\* The part of C29 that the code keeps: a call that returns covers the
\* section.
C29_ReturnedChunksCover ==
  narrative.pc = "done" => SectionCovered

\* The loop with a step of 0 has pushed the same window again.
C29_LoopRepeats ==
  /\ narrative.pc = "looping"
  /\ narrative.overlap >= narrative.chunkSize
  /\ Len(narrative.chunks) >= 2

(***************************************************************************)
(* Upload API requests and deduplication runs on one database and bucket.  *)
(***************************************************************************)
\* The script has ended; it can be run again.
DedupEnds ==
  /\ dedup.pc = "done"
  /\ dedup' = IdleDedup
  /\ UNCHANGED <<documents, storage, chunkRows>>

UploadDedupInit ==
  /\ env = {}
  /\ now = 0
  /\ client = NoClient
  /\ gen = IdleGen
  /\ rr = IdleRerank
  /\ DbInit
  /\ CachesEmpty
  /\ AppIdle

UploadDedupNext ==
  \/ \E f \in UploadFiles, so \in BOOLEAN, io \in BOOLEAN :
        UploadRequest(f, so, io)
        /\ UNCHANGED <<env, now, llmVars, cacheVars, appVars, chunkRows, proc, started>>
  \/ Tick(1) /\ UNCHANGED <<env, llmVars, dbVars, qcache, qlast, ecache, ecalls, appVars>>
  \/ \E apply \in BOOLEAN, fetchOk \in BOOLEAN :
        DedupStart(apply, fetchOk)
        /\ UNCHANGED <<env, now, llmVars, cacheVars, notDedup, upload, proc, started>>
  \/ \E countOk \in BOOLEAN :
        DedupCount(countOk)
        /\ UNCHANGED <<env, now, llmVars, cacheVars, notDedup, upload, proc, started>>
  \/ \E ok \in BOOLEAN :
        DedupDeleteChunks(ok)
        /\ UNCHANGED <<env, now, llmVars, cacheVars, notDedup, upload, proc, started>>
  \/ \E ok \in BOOLEAN :
        DedupDeleteDocument(ok)
        /\ UNCHANGED <<env, now, llmVars, cacheVars, notDedup, upload, proc, started>>
  \/ \E ok \in BOOLEAN :
        DedupRemoveBlob(ok)
        /\ UNCHANGED <<env, now, llmVars, cacheVars, notDedup, upload, proc, started>>
  \/ DedupEnds
        /\ UNCHANGED <<env, now, llmVars, cacheVars, notDedup, upload, proc, started>>

SpecUploadDedup == UploadDedupInit /\ [][UploadDedupNext]_vars

\* The storage paths of the document records.
RecordedPaths ==
  {documents[d].storage_path : d \in {e \in DOMAIN documents : documents[e].status # "none"}}

====
